---- MODULE Spec2Model ----
(***************************************************************************)
(* Watch Later home injector: the background service worker (Store), the   *)
(* Watch Later page scraper (Extractor) and the homepage content script    *)
(* (Presenter), modelled from background.js, watchLaterScraper.js (and its *)
(* revision with change detection) and injector.js.                        *)
(***************************************************************************)
EXTENDS Integers, Sequences, FiniteSets, TLC

\* ------------------------------------------------------------------ bounds
\* number of clock advances a behaviour may take
MaxTicks == 3
\* longest raw playlist array of the extraction's inputs
MaxItems == 2
\* longest playlist the background may hold for the homepage's shelf
MaxRecords == 5
\* messages in flight to the homepage tab
MaxInbox == 1
\* messages in flight to the background
MaxBgInbox == 2
\* waitForYtData runs at once
MaxWaits == 1
\* injectShelf runs that may be awaiting their response at once
MaxInflight == 2
\* storage writes of the scraper that may be awaiting completion at once
MaxPending == 2
\* longest thumbnail list of a raw video
MaxThumbs == 3

\* ------------------------------------------------------------ time base
MinuteMs == 60 * 1000
\* the clock advances in steps of ten minutes
TickMs == 10 * MinuteMs
StartTime == TickMs
EndTime == StartTime + MaxTicks * TickMs

\* ------------------------------------------------------------ optionals
None == <<>>
Some(x) == <<x>>
IsSome(o) == o # <<>>
Val(o) == o[1]
Has(r, f) == f \in DOMAIN r

\* --------------------------------------------------- background.js constants
DEFAULT_CACHE_TTL == 20 * 60 * 1000
DEFAULT_SETTINGS ==
  [enabled |-> TRUE, itemCount |-> 5, cacheTTL |-> 20, showEmptyState |-> TRUE]
TOKEN_LIFETIME == 50 * 60 * 1000

VARIABLES
  now,              \* Date.now(), in milliseconds
  syncSettings,     \* chrome.storage.sync[SETTINGS_KEY]
  localCacheTTL,    \* chrome.storage.local[CACHE_TTL_KEY]
  watchLaterCache,  \* chrome.storage.local[CACHE_KEY], written by the background
  watchLaterData,   \* chrome.storage.local.watchLaterData, written by the scraper
  cachedToken,      \* background: a token is cached
  tokenExpiryTime,  \* background: its expiry, 0 when null
  lastResponse,     \* the argument of the background's last sendResponse
  bgInbox,          \* runtime messages sent to the background, not yet handled
  tabInbox,         \* chrome.tabs.sendMessage messages, not yet delivered
  inflight,         \* injectShelf runs awaiting their GET_WATCH_LATER response
  \* the source (Watch Later) page context
  ytInitialData,    \* window.ytInitialData
  scraperUrl,       \* location.href of the source page's tab
  waits,            \* the attempts counter of each running waitForYtData
  lastVideoIds,     \* change detection: ids of the last check
  debounceTimeout,  \* change detection: the 800ms timer is pending
  pollInterval,     \* change detection: the 3s interval is set
  playlistObserver, \* change detection: the MutationObserver is not null
  startTimeout,     \* change detection: the 2s start timer is pending
  observing,        \* change detection: the observer observes #contents
  scraperLastUrl,   \* the navigation listener's lastUrl
  pendingSets,      \* entries whose chrome.storage.local.set has not completed
  \* the homepage content script (injector.js) and its document
  url,              \* window.location of the tab
  lastUrl,          \* the navigation observer's lastUrl
  isYouTubeHomepage,
  shelfInjected,
  currentSettings,  \* None for null
  observer,         \* the navigation MutationObserver is set up
  injectionTimeout, \* a scheduled injection is pending
  shelf,            \* the elements with the shelf id in the document, in order
  feedContainer,    \* document.querySelector('#contents') finds an element
  mutationPending,  \* the document changed since the observer's callback last ran
  initState,        \* where init() is: "loading", "waiting", "done", "failed"
  feedAttempts,     \* waitForFeedContainer's attempts
  currentFocusIndex \* the rendered carousel's currentFocusIndex, -1 for none

storeVars == <<now, syncSettings, localCacheTTL, watchLaterCache, watchLaterData,
               cachedToken, tokenExpiryTime, lastResponse, bgInbox, tabInbox>>
presenterVars == <<url, lastUrl, isYouTubeHomepage, shelfInjected, currentSettings,
                   observer, injectionTimeout, shelf, feedContainer, mutationPending,
                   initState, feedAttempts, currentFocusIndex>>
scraperVars == <<ytInitialData, scraperUrl, waits, lastVideoIds, debounceTimeout,
                 pollInterval, playlistObserver, startTimeout, observing, scraperLastUrl,
                 pendingSets>>

\* ------------------------------------------------------------- settings
\* saveSettings' validation: a field out of range or of the wrong type is
\* replaced by its default
ValidateSettings_NoRange(settings) ==
  [enabled |-> IF Has(settings, "enabled") THEN settings.enabled
               ELSE DEFAULT_SETTINGS.enabled,
   itemCount |-> IF Has(settings, "itemCount") THEN settings.itemCount
                 ELSE DEFAULT_SETTINGS.itemCount,
   cacheTTL |-> IF Has(settings, "cacheTTL") THEN settings.cacheTTL
                ELSE DEFAULT_SETTINGS.cacheTTL,
   showEmptyState |-> IF Has(settings, "showEmptyState") THEN settings.showEmptyState
                      ELSE DEFAULT_SETTINGS.showEmptyState]

ValidateSettings(settings) ==
  [enabled |-> IF Has(settings, "enabled") /\ settings.enabled \in BOOLEAN
               THEN settings.enabled ELSE DEFAULT_SETTINGS.enabled,
   itemCount |-> IF Has(settings, "itemCount")
                    /\ settings.itemCount >= 3 /\ settings.itemCount <= 10
                 THEN settings.itemCount ELSE DEFAULT_SETTINGS.itemCount,
   cacheTTL |-> IF Has(settings, "cacheTTL")
                   /\ settings.cacheTTL >= 5 /\ settings.cacheTTL <= 60
                THEN settings.cacheTTL ELSE DEFAULT_SETTINGS.cacheTTL,
   showEmptyState |-> IF Has(settings, "showEmptyState")
                         /\ settings.showEmptyState \in BOOLEAN
                      THEN settings.showEmptyState
                      ELSE DEFAULT_SETTINGS.showEmptyState]

\* { ...DEFAULT_SETTINGS, ...settings }
MergeOver(defaults, stored) ==
  [f \in (DOMAIN defaults) \cup (DOMAIN stored) |->
     IF f \in DOMAIN stored THEN stored[f] ELSE defaults[f]]

GetSettings_Whole(stored) ==
  IF IsSome(stored) THEN Val(stored) ELSE DEFAULT_SETTINGS

\* getSettings: the stored object (or {}) merged over the defaults
GetSettings(stored) ==
  MergeOver(DEFAULT_SETTINGS, IF IsSome(stored) THEN Val(stored) ELSE << >>)

\* --------------------------------------------------------------- cache
\* getCacheTTL: the stored minutes in milliseconds, or the default
GetCacheTTL(ttlKey) ==
  IF IsSome(ttlKey) /\ Val(ttlKey) > 0
  THEN Val(ttlKey) * 60 * 1000
  ELSE DEFAULT_CACHE_TTL

GetCachedPlaylist_StrictAge(cached, ttlKey, t) ==
  IF ~IsSome(cached) \/ Val(cached).timestamp = 0 THEN None
  ELSE IF t - Val(cached).timestamp >= GetCacheTTL(ttlKey) THEN None
  ELSE cached

\* getCachedPlaylist: the entry, or None when missing or older than the TTL
GetCachedPlaylist(cached, ttlKey, t) ==
  IF ~IsSome(cached) \/ Val(cached).timestamp = 0 THEN None
  ELSE IF t - Val(cached).timestamp > GetCacheTTL(ttlKey) THEN None
  ELSE cached

\* ---------------------------------------------------------------- auth
\* chrome.identity.getAuthToken: a token, no token (also the two handled
\* "not granted" / "client ID" errors, which return null and keep the cached
\* fields), or any other error (which clears the cached fields)
IdentityOutcomes == {"token", "none", "error"}

\* getAuthToken: <<token obtained, cachedToken', tokenExpiryTime'>>
GetAuthToken(cached, expiry, t, identity) ==
  IF cached /\ expiry # 0 /\ t < expiry
  THEN [token |-> TRUE, cachedToken |-> cached, tokenExpiryTime |-> expiry]
  ELSE CASE identity = "token" ->
              [token |-> TRUE, cachedToken |-> TRUE, tokenExpiryTime |-> t + TOKEN_LIFETIME]
         [] identity = "none" ->
              [token |-> FALSE, cachedToken |-> cached, tokenExpiryTime |-> expiry]
         [] OTHER ->
              [token |-> FALSE, cachedToken |-> FALSE, tokenExpiryTime |-> 0]

\* ------------------------------------------------------- video records
Video(id) == [videoId |-> id, title |-> "t"]

\* fetchWatchLaterItems: the items of the API's answer, a 401, or another failure
ApiOutcomes ==
  {[kind |-> "ok", items |-> l] : l \in {<< >>, <<Video(3)>>}}
    \cup {[kind |-> "authFailed"], [kind |-> "error"]}

\* the first injectShelf run whose request is not yet answered
FirstUnanswered == CHOOSE i \in 1..Len(inflight) :
  /\ ~IsSome(inflight[i].response)
  /\ \A j \in 1..(i - 1) : IsSome(inflight[j].response)

\* sendResponse(resp) to the sender of the request: the homepage content
\* script ("injector") or another extension page
Reply(src, resp) ==
  /\ lastResponse' = Some(resp)
  /\ IF src = "injector"
     THEN /\ \E i \in 1..Len(inflight) : ~IsSome(inflight[i].response)
          /\ inflight' = [inflight EXCEPT ![FirstUnanswered].response = Some(resp)]
     ELSE UNCHANGED inflight

\* ------------------------------------------------ background handlers
\* saveSettings(settings): both storage writes
SaveSettings(settings) ==
  /\ syncSettings' = Some(ValidateSettings(settings))
  /\ localCacheTTL' = Some(ValidateSettings(settings).cacheTTL)

\* resetSettings()
ResetSettings ==
  /\ syncSettings' = Some(DEFAULT_SETTINGS)
  /\ localCacheTTL' = Some(DEFAULT_SETTINGS.cacheTTL)

\* tabs.forEach(tab => chrome.tabs.sendMessage(tab.id, msg))
Broadcast(msg) ==
  /\ Len(tabInbox) < MaxInbox
  /\ tabInbox' = Append(tabInbox, msg)

\* a message to the tab finds no listener (the promise rejects; ignored)
TabDrops ==
  /\ tabInbox # << >>
  /\ tabInbox' = Tail(tabInbox)
  /\ UNCHANGED <<now, syncSettings, localCacheTTL, watchLaterCache, watchLaterData,
                 cachedToken, tokenExpiryTime, lastResponse, bgInbox, inflight,
                 scraperVars, presenterVars>>

\* case 'SAVE_SETTINGS'
OnMessage_SAVE_SETTINGS(settings) ==
  /\ SaveSettings(settings)
  /\ Broadcast([type |-> "SETTINGS_UPDATED", settings |-> settings])
  /\ Reply("other", [success |-> TRUE, settings |-> settings])
  /\ UNCHANGED <<now, watchLaterCache, watchLaterData, cachedToken,
                 tokenExpiryTime, bgInbox, scraperVars, presenterVars>>

\* case 'RESET_SETTINGS'
OnMessage_RESET_SETTINGS ==
  /\ ResetSettings
  /\ Broadcast([type |-> "SETTINGS_UPDATED", settings |-> DEFAULT_SETTINGS])
  /\ Reply("other", [success |-> TRUE, settings |-> DEFAULT_SETTINGS])
  /\ UNCHANGED <<now, watchLaterCache, watchLaterData, cachedToken,
                 tokenExpiryTime, bgInbox, scraperVars, presenterVars>>

\* case 'GET_SETTINGS'
OnMessage_GET_SETTINGS ==
  /\ Reply("other", [success |-> TRUE, settings |-> GetSettings(syncSettings)])
  /\ UNCHANGED <<now, syncSettings, localCacheTTL, watchLaterCache, watchLaterData,
                 cachedToken, tokenExpiryTime, bgInbox, tabInbox, scraperVars, presenterVars>>

\* chrome.runtime.onInstalled
OnInstalled(reason) ==
  /\ reason \in {"install", "update"}
  /\ IF reason = "install"
     THEN SaveSettings(DEFAULT_SETTINGS)
     ELSE SaveSettings(GetSettings(syncSettings))
  /\ UNCHANGED <<now, watchLaterCache, watchLaterData, cachedToken, tokenExpiryTime,
                 lastResponse, bgInbox, tabInbox, inflight, scraperVars, presenterVars>>

\* case 'CLEAR_CACHE': clearCache() removes CACHE_KEY
OnMessage_CLEAR_CACHE ==
  /\ watchLaterCache' = None
  /\ Reply("other", [success |-> TRUE])
  /\ UNCHANGED <<now, syncSettings, localCacheTTL, watchLaterData, cachedToken,
                 tokenExpiryTime, bgInbox, tabInbox, scraperVars, presenterVars>>

\* case 'GET_WATCH_LATER': getWatchLaterWithCache(forceRefresh, maxResults)
OnMessage_GET_WATCH_LATER(src, forceRefresh, identity, api) ==
  LET cached == IF forceRefresh THEN None
                ELSE GetCachedPlaylist(watchLaterCache, localCacheTTL, now)
      auth == GetAuthToken(cachedToken, tokenExpiryTime, now, identity)
  IN
  /\ IF IsSome(cached)
     THEN /\ Reply(src, [success |-> TRUE, items |-> Val(cached).items,
                         count |-> Len(Val(cached).items), fromCache |-> TRUE,
                         timestamp |-> Val(cached).timestamp])
          /\ UNCHANGED <<watchLaterCache, cachedToken, tokenExpiryTime>>
     ELSE IF ~auth.token
     THEN \* throw new Error('Not authenticated'): the handler clears the token
          /\ Reply(src, [success |-> FALSE, needsAuth |-> TRUE,
                         error |-> "Not authenticated"])
          /\ cachedToken' = FALSE
          /\ tokenExpiryTime' = 0
          /\ UNCHANGED watchLaterCache
     ELSE IF api.kind = "ok"
     THEN \* setCachedPlaylist(items)
          /\ watchLaterCache' = Some([items |-> api.items, timestamp |-> now])
          /\ cachedToken' = auth.cachedToken
          /\ tokenExpiryTime' = auth.tokenExpiryTime
          /\ Reply(src, [success |-> TRUE, items |-> api.items,
                         count |-> Len(api.items), fromCache |-> FALSE,
                         timestamp |-> now])
     ELSE IF api.kind = "authFailed"
     THEN /\ Reply(src, [success |-> FALSE, needsAuth |-> TRUE,
                         error |-> "Authentication failed. Please sign in again."])
          /\ cachedToken' = FALSE
          /\ tokenExpiryTime' = 0
          /\ UNCHANGED watchLaterCache
     ELSE /\ Reply(src, [success |-> FALSE, error |-> "error"])
          /\ cachedToken' = auth.cachedToken
          /\ tokenExpiryTime' = auth.tokenExpiryTime
          /\ UNCHANGED watchLaterCache
  /\ UNCHANGED <<now, syncSettings, localCacheTTL, watchLaterData, bgInbox, tabInbox,
                 scraperVars, presenterVars>>

\* default: a message type the switch does not know (WATCH_LATER_UPDATED,
\* the scraper's notification, among them)
OnMessage_default ==
  /\ bgInbox # << >>
  /\ Head(bgInbox).type \notin {"GET_WATCH_LATER", "GET_SETTINGS", "SAVE_SETTINGS",
                                 "RESET_SETTINGS", "CLEAR_CACHE"}
  /\ bgInbox' = Tail(bgInbox)
  /\ Reply("other", [success |-> FALSE, error |-> "Unknown message type"])
  /\ UNCHANGED <<now, syncSettings, localCacheTTL, watchLaterCache, watchLaterData,
                 cachedToken, tokenExpiryTime, tabInbox, scraperVars, presenterVars>>

\* ------------------------------- the background under failing accesses
\* the outcome of a call: a returned value, or an error thrown to the caller
Returned(v) == [threw |-> FALSE, value |-> v]
Thrown(message) == [threw |-> TRUE, message |-> message]

\* the accesses of the background that may throw (io is the set of those
\* that do, in the handling of one message): chrome.storage.local.get of the
\* cache entry and of the TTL, .set of the cache entry, .remove of it,
\* chrome.storage.sync.get and .set of the settings, chrome.storage.local.set
\* of the TTL, chrome.tabs.query
Accesses == {"getCache", "getTTL", "setCache", "removeCache", "getSettings",
             "setSettings", "setTTL", "tabsQuery"}

\* getCacheTTL()
GetCacheTTLCall(io, ttlKey) ==
  IF "getTTL" \in io THEN Returned(DEFAULT_CACHE_TTL)
  ELSE Returned(GetCacheTTL(ttlKey))

\* getCachedPlaylist()
GetCachedPlaylistCall(io, cached, ttlKey, t) ==
  IF "getCache" \in io THEN Returned(None)
  ELSE IF ~IsSome(cached) \/ Val(cached).timestamp = 0 THEN Returned(None)
  ELSE LET ttl == GetCacheTTLCall(io, ttlKey)
       IN IF ttl.threw THEN Returned(None)
          ELSE IF t - Val(cached).timestamp > ttl.value THEN Returned(None)
          ELSE Returned(cached)

\* setCachedPlaylist(items): the returned status and the entry afterwards
SetCachedPlaylistCall(io, items, t, cached) ==
  IF "setCache" \in io
  THEN [threw |-> FALSE, value |-> FALSE, cache |-> cached]
  ELSE [threw |-> FALSE, value |-> TRUE,
        cache |-> Some([items |-> items, timestamp |-> t])]

\* clearCache(): the returned status and the entry afterwards
ClearCacheCall(io, cached) ==
  IF "removeCache" \in io
  THEN [threw |-> FALSE, value |-> FALSE, cache |-> cached]
  ELSE [threw |-> FALSE, value |-> TRUE, cache |-> None]

GetSettingsCall_NoCatch(io, stored) ==
  IF "getSettings" \in io THEN Thrown("Storage error")
  ELSE Returned(GetSettings(stored))

\* getSettings()
GetSettingsCall(io, stored) ==
  IF "getSettings" \in io THEN Returned(DEFAULT_SETTINGS)
  ELSE Returned(GetSettings(stored))

\* saveSettings(settings): the returned status, the stored settings and the
\* stored TTL afterwards; the second write is not reached when the first throws
SaveSettingsCall(io, settings, stored, ttlKey) ==
  IF "setSettings" \in io
  THEN [threw |-> FALSE, value |-> FALSE, sync |-> stored, ttl |-> ttlKey]
  ELSE IF "setTTL" \in io
  THEN [threw |-> FALSE, value |-> FALSE,
        sync |-> Some(ValidateSettings(settings)), ttl |-> ttlKey]
  ELSE [threw |-> FALSE, value |-> TRUE,
        sync |-> Some(ValidateSettings(settings)),
        ttl |-> Some(ValidateSettings(settings).cacheTTL)]

\* resetSettings()
ResetSettingsCall(io, stored, ttlKey) ==
  IF "setSettings" \in io
  THEN [threw |-> FALSE, value |-> FALSE, sync |-> stored, ttl |-> ttlKey]
  ELSE IF "setTTL" \in io
  THEN [threw |-> FALSE, value |-> FALSE, sync |-> Some(DEFAULT_SETTINGS), ttl |-> ttlKey]
  ELSE [threw |-> FALSE, value |-> TRUE, sync |-> Some(DEFAULT_SETTINGS),
        ttl |-> Some(DEFAULT_SETTINGS.cacheTTL)]

\* the message of the error fetchWatchLaterItems throws
ApiErrorMessage(api) ==
  IF api.kind = "authFailed" THEN "Authentication failed. Please sign in again."
  ELSE "Rate limit exceeded. Please try again later."

\* getWatchLaterWithCache(forceRefresh): what it returns or throws, and the
\* cache entry and the token fields afterwards
GetWatchLaterWithCacheCall(io, forceRefresh, identity, api) ==
  LET read == IF forceRefresh THEN Returned(None)
              ELSE GetCachedPlaylistCall(io, watchLaterCache, localCacheTTL, now)
      auth == GetAuthToken(cachedToken, tokenExpiryTime, now, identity)
      before == [cache |-> watchLaterCache, cachedToken |-> cachedToken,
                 tokenExpiryTime |-> tokenExpiryTime]
      authed == [cache |-> watchLaterCache, cachedToken |-> auth.cachedToken,
                 tokenExpiryTime |-> auth.tokenExpiryTime]
  IN IF read.threw THEN [call |-> read, after |-> before]
     ELSE IF IsSome(read.value)
     THEN [call |-> Returned([items |-> Val(read.value).items, fromCache |-> TRUE,
                              timestamp |-> Val(read.value).timestamp]),
           after |-> before]
     ELSE IF ~auth.token
     THEN [call |-> Thrown("Not authenticated"), after |-> authed]
     ELSE IF api.kind # "ok"
     THEN [call |-> Thrown(ApiErrorMessage(api)), after |-> authed]
     ELSE LET write == SetCachedPlaylistCall(io, api.items, now, watchLaterCache)
          IN IF write.threw
             THEN [call |-> Thrown("Storage error"), after |-> authed]
             ELSE [call |-> Returned([items |-> api.items, fromCache |-> FALSE,
                                      timestamp |-> now]),
                   after |-> [authed EXCEPT !.cache = write.cache]]

\* what the handling of a message has done so far: the sendResponse calls,
\* the messages sent to the tabs, the storage keys and the token fields
NoEffect ==
  [responses |-> << >>, sent |-> << >>, cache |-> watchLaterCache,
   sync |-> syncSettings, ttl |-> localCacheTTL, cachedToken |-> cachedToken,
   tokenExpiryTime |-> tokenExpiryTime, threw |-> FALSE, message |-> ""]

\* the switch of the message listener: its effects, and the error it throws
\* to the listener's outer catch, if any
OnMessageSwitch(message, io, identity, api) ==
  LET auth == GetAuthToken(cachedToken, tokenExpiryTime, now, identity)
      withAuth == [NoEffect EXCEPT !.cachedToken = auth.cachedToken,
                                   !.tokenExpiryTime = auth.tokenExpiryTime]
      type == message.type
  IN CASE type = "CHECK_AUTH" ->
            [withAuth EXCEPT !.responses =
               <<[success |-> TRUE,
                  data |-> [authenticated |-> auth.token, needsAuth |-> ~auth.token]]>>]
       [] type = "GET_AUTH_TOKEN" ->
            [withAuth EXCEPT !.responses =
               <<[success |-> auth.token, token |-> auth.token, needsAuth |-> ~auth.token]>>]
       [] type = "SIGN_IN" ->
            [withAuth EXCEPT !.responses =
               <<IF auth.token
                 THEN [success |-> TRUE, token |-> TRUE, error |-> ""]
                 ELSE [success |-> FALSE, token |-> FALSE,
                       error |-> "No token returned - user may have cancelled"]>>]
       [] type = "SIGN_OUT" ->
            [NoEffect EXCEPT !.cachedToken = FALSE, !.tokenExpiryTime = 0,
                             !.responses = <<[success |-> TRUE]>>]
       [] type = "GET_WATCH_LATER" ->
            LET r == GetWatchLaterWithCacheCall(
                       io, Has(message, "forceRefresh") /\ message.forceRefresh,
                       identity, api)
                e == [NoEffect EXCEPT !.cache = r.after.cache,
                                      !.cachedToken = r.after.cachedToken,
                                      !.tokenExpiryTime = r.after.tokenExpiryTime]
            IN IF ~r.call.threw
               THEN [e EXCEPT !.responses =
                       <<[success |-> TRUE, items |-> r.call.value.items,
                          count |-> Len(r.call.value.items),
                          fromCache |-> r.call.value.fromCache,
                          timestamp |-> r.call.value.timestamp]>>]
               ELSE IF r.call.message \in {"Not authenticated",
                                           "Authentication failed. Please sign in again."}
               THEN [e EXCEPT !.cachedToken = FALSE, !.tokenExpiryTime = 0,
                              !.responses = <<[success |-> FALSE, needsAuth |-> TRUE,
                                               error |-> r.call.message]>>]
               ELSE [e EXCEPT !.responses =
                       <<[success |-> FALSE, error |-> r.call.message]>>]
       [] type = "REFRESH_CACHE" ->
            LET r == GetWatchLaterWithCacheCall(io, TRUE, identity, api)
                e == [NoEffect EXCEPT !.cache = r.after.cache,
                                      !.cachedToken = r.after.cachedToken,
                                      !.tokenExpiryTime = r.after.tokenExpiryTime]
            IN IF ~r.call.threw
               THEN [e EXCEPT !.responses =
                       <<[success |-> TRUE, items |-> r.call.value.items,
                          count |-> Len(r.call.value.items), refreshed |-> TRUE]>>]
               ELSE [e EXCEPT !.responses =
                       <<[success |-> FALSE, error |-> r.call.message]>>]
       [] type = "CLEAR_CACHE" ->
            LET r == ClearCacheCall(io, watchLaterCache)
            IN IF r.threw THEN [NoEffect EXCEPT !.threw = TRUE, !.message = r.message]
               ELSE [NoEffect EXCEPT !.cache = r.cache,
                                     !.responses = <<[success |-> r.value]>>]
       [] type = "GET_SETTINGS" ->
            LET r == GetSettingsCall(io, syncSettings)
            IN IF r.threw THEN [NoEffect EXCEPT !.threw = TRUE, !.message = r.message]
               ELSE [NoEffect EXCEPT !.responses =
                       <<[success |-> TRUE, settings |-> r.value]>>]
       [] type = "SAVE_SETTINGS" ->
            IF ~Has(message, "settings")
            THEN [NoEffect EXCEPT !.responses =
                    <<[success |-> FALSE, error |-> "Settings object required"]>>]
            ELSE LET r == SaveSettingsCall(io, message.settings, syncSettings, localCacheTTL)
                     e == [NoEffect EXCEPT !.sync = r.sync, !.ttl = r.ttl]
                 IN IF r.threw THEN [e EXCEPT !.threw = TRUE, !.message = r.message]
                    ELSE IF r.value /\ "tabsQuery" \in io
                    THEN [e EXCEPT !.threw = TRUE, !.message = "Tabs error"]
                    ELSE IF r.value
                    THEN [e EXCEPT !.sent = <<[type |-> "SETTINGS_UPDATED",
                                               settings |-> message.settings]>>,
                                   !.responses = <<[success |-> TRUE,
                                                    settings |-> message.settings]>>]
                    ELSE [e EXCEPT !.responses = <<[success |-> FALSE, settings |-> None]>>]
       [] type = "RESET_SETTINGS" ->
            LET r == ResetSettingsCall(io, syncSettings, localCacheTTL)
                e == [NoEffect EXCEPT !.sync = r.sync, !.ttl = r.ttl]
            IN IF r.threw THEN [e EXCEPT !.threw = TRUE, !.message = r.message]
               ELSE IF r.value /\ "tabsQuery" \in io
                    THEN [e EXCEPT !.threw = TRUE, !.message = "Tabs error"]
               ELSE IF r.value
               THEN [e EXCEPT !.sent = <<[type |-> "SETTINGS_UPDATED",
                                          settings |-> DEFAULT_SETTINGS]>>,
                              !.responses = <<[success |-> TRUE,
                                               settings |-> DEFAULT_SETTINGS]>>]
               ELSE [e EXCEPT !.responses = <<[success |-> FALSE, settings |-> None]>>]
       [] OTHER ->
            [NoEffect EXCEPT !.responses =
               <<[success |-> FALSE, error |-> "Unknown message type"]>>]

OnMessageEffect_NoCatch(message, io, identity, api) ==
  OnMessageSwitch(message, io, identity, api)

\* the message listener's async body: the switch inside its try, and the
\* catch that answers with the error's message
OnMessageEffect(message, io, identity, api) ==
  LET e == OnMessageSwitch(message, io, identity, api)
  IN IF e.threw
     THEN [e EXCEPT !.responses =
             Append(e.responses, [success |-> FALSE, error |-> e.message])]
     ELSE e

\* chrome.runtime.onMessage of the background: a message of any type is
\* handled, with the accesses in io throwing
OnMessage(message, io, identity, api) ==
  \E e \in {OnMessageEffect(message, io, identity, api)} :
     /\ lastResponse' = IF e.responses = << >> THEN lastResponse
                        ELSE Some(e.responses[Len(e.responses)])
     /\ Len(tabInbox) + Len(e.sent) <= MaxInbox
     /\ tabInbox' = tabInbox \o e.sent
     /\ watchLaterCache' = e.cache
     /\ syncSettings' = e.sync
     /\ localCacheTTL' = e.ttl
     /\ cachedToken' = e.cachedToken
     /\ tokenExpiryTime' = e.tokenExpiryTime
     /\ UNCHANGED <<now, watchLaterData, bgInbox, inflight, scraperVars, presenterVars>>

\* ------------------------------------------------------------ extractor
\* a raw item of the playlist array: its playlistVideoRenderer (or none), the
\* renderer's videoId (0: none) and title text ("": none)
RawVideo(id) == [renderer |-> TRUE, videoId |-> id, title |-> "t"]
Malformed == [renderer |-> FALSE, videoId |-> 0, title |-> ""]
\* an array entry that is null: reading its playlistVideoRenderer throws
NullItem == [renderer |-> FALSE, videoId |-> 0, title |-> "", null |-> TRUE]
IsNullItem(item) == Has(item, "null")

\* window.ytInitialData: whether .contents is set, which structural path
\* holds an array ("primary": ...playlistVideoListRenderer.contents, "alt":
\* only ...sectionListRenderer.contents, "none": neither) and that array
PageData(path, items) == Some([contents |-> TRUE, path |-> path, items |-> items])

\* thumbnails[j]?.url, j counted from 0: "" stands for undefined (no such
\* entry, or an entry without url)
UrlAt(thumbnails, j) ==
  IF j >= 0 /\ j < Len(thumbnails) THEN thumbnails[j + 1] ELSE ""

\* a || b on URL strings
OrElse(a, b) == IF a # "" THEN a ELSE b

PickThumbnails_MediumFirst(thumbnails) ==
  [default |-> OrElse(UrlAt(thumbnails, 0), ""),
   medium |-> OrElse(OrElse(UrlAt(thumbnails, 0), UrlAt(thumbnails, 0)), ""),
   high |-> OrElse(OrElse(UrlAt(thumbnails, Len(thumbnails) - 1),
                          UrlAt(thumbnails, 0)), "")]

\* the thumbnails object of a video record
PickThumbnails(thumbnails) ==
  [default |-> OrElse(UrlAt(thumbnails, 0), ""),
   medium |-> OrElse(OrElse(UrlAt(thumbnails, IF Len(thumbnails) > 1 THEN 1 ELSE 0),
                            UrlAt(thumbnails, 0)), ""),
   high |-> OrElse(OrElse(UrlAt(thumbnails, Len(thumbnails) - 1),
                          UrlAt(thumbnails, 0)), "")]

\* the video record built from one playlistVideoRenderer; a renderer without
\* thumbnail field has the empty list (videoRenderer.thumbnail?.thumbnails || [])
ExtractVideo(item) ==
  [videoId |-> item.videoId,
   title |-> IF item.title # "" THEN item.title ELSE "Unknown Title",
   thumbnails |-> PickThumbnails(IF Has(item, "thumbnails") THEN item.thumbnails
                                 ELSE << >>)]

\* the loop over contents: items without a renderer or a videoId are skipped
ExtractVideos(items) ==
  LET kept == SelectSeq(items, LAMBDA it : it.renderer /\ it.videoId # 0)
      videos == [i \in 1..Len(kept) |-> ExtractVideo(kept[i])]
  IN SelectSeq(videos, LAMBDA v : v.videoId # 0 /\ v.title # "")

\* extractWatchLaterData: None for null, Some(videos) otherwise
ExtractWatchLaterData(data) ==
  IF ~IsSome(data) THEN None
  ELSE IF Val(data).path \notin {"primary", "alt"} THEN None
  ELSE IF \E i \in 1..Len(Val(data).items) : IsNullItem(Val(data).items[i])
  THEN None  \* the TypeError is caught: return null
  ELSE Some(ExtractVideos(Val(data).items))

\* saveToStorage(videos): the storage write, then the notification
SaveToStorage(videos) ==
  /\ watchLaterData' = Some([videos |-> videos, timestamp |-> now, source |-> "scraper"])
  /\ Len(bgInbox) < MaxBgInbox
  /\ bgInbox' = Append(bgInbox, [type |-> "WATCH_LATER_UPDATED", count |-> Len(videos)])

ScrapeWatchLater_SkipEmpty(data) ==
  LET videos == ExtractWatchLaterData(data)
  IN IF IsSome(videos) /\ Len(Val(videos)) > 0
     THEN SaveToStorage(Val(videos))
     ELSE UNCHANGED <<watchLaterData, bgInbox>>

\* scrapeWatchLater() on the page's data: save a list (also the empty one),
\* nothing on null
ScrapeWatchLater(data) ==
  LET videos == ExtractWatchLaterData(data)
  IN IF IsSome(videos) /\ Len(Val(videos)) > 0
     THEN SaveToStorage(Val(videos))
     ELSE IF IsSome(videos) /\ Len(Val(videos)) = 0
     THEN SaveToStorage(<< >>)
     ELSE UNCHANGED <<watchLaterData, bgInbox>>

OnWatchLater(href) == href \in {"wl", "wl2"}

\* waitForYtData's maxAttempts
WAIT_MAX_ATTEMPTS == 30

Remove(seq, i) == SubSeq(seq, 1, i - 1) \o SubSeq(seq, i + 1, Len(seq))

CheckData_OneMore(i, fromDOM) ==
  /\ i \in 1..Len(waits)
  /\ IF IsSome(ytInitialData) /\ Val(ytInitialData).contents
     THEN /\ ScrapeWatchLater(ytInitialData)
          /\ waits' = Remove(waits, i)
          /\ UNCHANGED ytInitialData
     ELSE IF waits[i] > 5 /\ IsSome(fromDOM) /\ Val(fromDOM).contents
     THEN /\ ytInitialData' = fromDOM
          /\ ScrapeWatchLater(fromDOM)
          /\ waits' = Remove(waits, i)
     ELSE /\ waits' = IF waits[i] + 1 > WAIT_MAX_ATTEMPTS THEN Remove(waits, i)
                      ELSE [waits EXCEPT ![i] = waits[i] + 1]
          /\ UNCHANGED <<ytInitialData, watchLaterData, bgInbox>>
  /\ UNCHANGED <<now, syncSettings, localCacheTTL, watchLaterCache, cachedToken,
                 tokenExpiryTime, lastResponse, tabInbox, inflight, scraperUrl,
                 lastVideoIds, debounceTimeout, pollInterval, playlistObserver,
                 startTimeout, observing, scraperLastUrl, pendingSets, presenterVars>>

\* one checkData() of a running waitForYtData(scrapeWatchLater); fromDOM is
\* what extractYtInitialDataFromDOM() finds in the script tags
CheckData(i, fromDOM) ==
  /\ i \in 1..Len(waits)
  /\ IF IsSome(ytInitialData) /\ Val(ytInitialData).contents
     THEN /\ ScrapeWatchLater(ytInitialData)
          /\ waits' = Remove(waits, i)
          /\ UNCHANGED ytInitialData
     ELSE IF waits[i] > 5 /\ IsSome(fromDOM) /\ Val(fromDOM).contents
     THEN /\ ytInitialData' = fromDOM
          /\ ScrapeWatchLater(fromDOM)
          /\ waits' = Remove(waits, i)
     ELSE /\ waits' = IF waits[i] + 1 >= WAIT_MAX_ATTEMPTS THEN Remove(waits, i)
                      ELSE [waits EXCEPT ![i] = waits[i] + 1]
          /\ UNCHANGED <<ytInitialData, watchLaterData, bgInbox>>
  /\ UNCHANGED <<now, syncSettings, localCacheTTL, watchLaterCache, cachedToken,
                 tokenExpiryTime, lastResponse, tabInbox, inflight, scraperUrl,
                 lastVideoIds, debounceTimeout, pollInterval, playlistObserver,
                 startTimeout, observing, scraperLastUrl, pendingSets, presenterVars>>

Cleanup_KeepDebounce ==
  /\ pollInterval' = FALSE
  /\ playlistObserver' = FALSE
  /\ observing' = FALSE
  /\ UNCHANGED debounceTimeout

\* saveToStorage(videos) up to its await: the entry is built with Date.now()
\* and handed to chrome.storage.local.set
SaveToStorageBegin(videos) ==
  /\ Cardinality(pendingSets) < MaxPending
  /\ pendingSets' = pendingSets \cup
                      {[videos |-> videos, timestamp |-> now, source |-> "scraper"]}

\* scrapeWatchLater() on the page's data, up to saveToStorage's await
ScrapeWatchLaterBegin(data) ==
  LET videos == ExtractWatchLaterData(data)
  IN IF IsSome(videos)
     THEN SaveToStorageBegin(Val(videos))
     ELSE UNCHANGED pendingSets

\* one checkData() of a running waitForYtData(scrapeWatchLater), up to
\* saveToStorage's await
CheckDataBegin(i, fromDOM) ==
  /\ i \in 1..Len(waits)
  /\ IF IsSome(ytInitialData) /\ Val(ytInitialData).contents
     THEN /\ ScrapeWatchLaterBegin(ytInitialData)
          /\ waits' = Remove(waits, i)
          /\ UNCHANGED ytInitialData
     ELSE IF waits[i] > 5 /\ IsSome(fromDOM) /\ Val(fromDOM).contents
     THEN /\ ytInitialData' = fromDOM
          /\ ScrapeWatchLaterBegin(fromDOM)
          /\ waits' = Remove(waits, i)
     ELSE /\ waits' = IF waits[i] + 1 >= WAIT_MAX_ATTEMPTS THEN Remove(waits, i)
                      ELSE [waits EXCEPT ![i] = waits[i] + 1]
          /\ UNCHANGED <<ytInitialData, pendingSets>>
  /\ UNCHANGED <<storeVars, inflight, scraperUrl, lastVideoIds, debounceTimeout,
                 pollInterval, playlistObserver, startTimeout, observing,
                 scraperLastUrl, presenterVars>>

\* saveToStorage after its await: the storage has applied the set of entry d
\* (the storage API promises no order among pending sets), then the
\* notification is sent
SaveToStorageResume(d) ==
  /\ d \in pendingSets
  /\ pendingSets' = pendingSets \ {d}
  /\ watchLaterData' = Some(d)
  /\ Len(bgInbox) < MaxBgInbox
  /\ bgInbox' = Append(bgInbox, [type |-> "WATCH_LATER_UPDATED", count |-> Len(d.videos)])
  /\ UNCHANGED <<now, syncSettings, localCacheTTL, watchLaterCache, cachedToken,
                 tokenExpiryTime, lastResponse, tabInbox, inflight, ytInitialData,
                 scraperUrl, waits, lastVideoIds, debounceTimeout, pollInterval,
                 playlistObserver, startTimeout, observing, scraperLastUrl,
                 presenterVars>>

\* saveToStorage when chrome.storage.local.set of entry d throws or rejects:
\* the catch logs the error; no entry is written and no notification sent
SaveToStorageRejects(d) ==
  /\ d \in pendingSets
  /\ pendingSets' = pendingSets \ {d}
  /\ UNCHANGED <<storeVars, inflight, ytInitialData, scraperUrl, waits, lastVideoIds,
                 debounceTimeout, pollInterval, playlistObserver, startTimeout,
                 observing, scraperLastUrl, presenterVars>>

\* change detection, cleanup()
Cleanup ==
  /\ pollInterval' = FALSE
  /\ playlistObserver' = FALSE
  /\ observing' = FALSE
  /\ debounceTimeout' = FALSE

\* checkAndUpdatePlaylist(): off the page clean up, else (re)arm the debounce
CheckAndUpdatePlaylist ==
  IF ~OnWatchLater(scraperUrl)
  THEN Cleanup
  ELSE /\ debounceTimeout' = TRUE
       /\ UNCHANGED <<pollInterval, playlistObserver, observing>>

\* the 3s interval fires (not before the 2s start timer, set at the same time)
PollFires ==
  /\ pollInterval
  /\ ~startTimeout
  /\ CheckAndUpdatePlaylist
  /\ UNCHANGED <<storeVars, inflight, ytInitialData, scraperUrl, waits, lastVideoIds,
                 startTimeout, scraperLastUrl, pendingSets, presenterVars>>

\* the 2s start timer fires: off the page clean up, else observe #contents
\* (when found) and do the initial check
StartTimerFires(found) ==
  /\ startTimeout
  /\ startTimeout' = FALSE
  /\ IF ~OnWatchLater(scraperUrl)
     THEN Cleanup
     ELSE /\ observing' = (found /\ playlistObserver)
          /\ debounceTimeout' = TRUE
          /\ UNCHANGED <<pollInterval, playlistObserver>>
  /\ UNCHANGED <<storeVars, inflight, ytInitialData, scraperUrl, waits, lastVideoIds,
                 scraperLastUrl, pendingSets, presenterVars>>

\* the playlist MutationObserver's callback runs; relevant: a playlist video
\* renderer was added or removed
MutationCallback(relevant) ==
  /\ playlistObserver
  /\ observing
  /\ IF ~OnWatchLater(scraperUrl)
     THEN Cleanup
     ELSE IF relevant
     THEN CheckAndUpdatePlaylist
     ELSE UNCHANGED <<pollInterval, playlistObserver, observing, debounceTimeout>>
  /\ UNCHANGED <<storeVars, inflight, ytInitialData, scraperUrl, waits, lastVideoIds,
                 startTimeout, scraperLastUrl, pendingSets, presenterVars>>

VideoIds(videos) == {videos[i].videoId : i \in 1..Len(videos)}

DebounceFires_AlwaysScrape ==
  /\ debounceTimeout
  /\ debounceTimeout' = FALSE
  /\ LET videos == ExtractWatchLaterData(ytInitialData)
     IN IF ~IsSome(videos)
        THEN UNCHANGED <<lastVideoIds, watchLaterData, bgInbox>>
        ELSE /\ lastVideoIds' = VideoIds(Val(videos))
             /\ ScrapeWatchLater(ytInitialData)
  /\ UNCHANGED <<now, syncSettings, localCacheTTL, watchLaterCache, cachedToken,
                 tokenExpiryTime, lastResponse, tabInbox, inflight, ytInitialData,
                 scraperUrl, waits, pollInterval, playlistObserver, startTimeout,
                 observing, scraperLastUrl, pendingSets, presenterVars>>

\* the debounced callback of checkAndUpdatePlaylist runs
DebounceFires ==
  /\ debounceTimeout
  /\ debounceTimeout' = FALSE
  /\ LET videos == ExtractWatchLaterData(ytInitialData)
     IN IF ~IsSome(videos)
        THEN UNCHANGED <<lastVideoIds, watchLaterData, bgInbox>>
        ELSE IF lastVideoIds # {} /\ VideoIds(Val(videos)) # lastVideoIds
        THEN /\ lastVideoIds' = VideoIds(Val(videos))
             /\ ScrapeWatchLater(ytInitialData)
        ELSE /\ lastVideoIds' = IF lastVideoIds = {} THEN VideoIds(Val(videos))
                                ELSE lastVideoIds
             /\ UNCHANGED <<watchLaterData, bgInbox>>
  /\ UNCHANGED <<now, syncSettings, localCacheTTL, watchLaterCache, cachedToken,
                 tokenExpiryTime, lastResponse, tabInbox, inflight, ytInitialData,
                 scraperUrl, waits, pollInterval, playlistObserver, startTimeout,
                 observing, scraperLastUrl, pendingSets, presenterVars>>

\* the source page replaces its embedded data (videos added or removed)
PageDataChanges(data) ==
  /\ OnWatchLater(scraperUrl)
  /\ ytInitialData' = data
  /\ UNCHANGED <<storeVars, inflight, scraperUrl, waits, lastVideoIds,
                 debounceTimeout, pollInterval, playlistObserver, startTimeout,
                 observing, scraperLastUrl, pendingSets, presenterVars>>

\* the user navigates within the site in the source page's tab; the new page
\* brings its own data
ScraperNavigate(href, data) ==
  /\ href # scraperUrl
  /\ scraperUrl' = href
  /\ ytInitialData' = data
  /\ UNCHANGED <<storeVars, inflight, waits, lastVideoIds, debounceTimeout,
                 pollInterval, playlistObserver, startTimeout, observing,
                 scraperLastUrl, pendingSets, presenterVars>>

\* setupNavigationListener's observer callback sees a changed URL: back on
\* the Watch Later page it starts waitForYtData(scrapeWatchLater)
NavListenerCallback ==
  /\ scraperUrl # scraperLastUrl
  /\ scraperLastUrl' = scraperUrl
  /\ IF OnWatchLater(scraperUrl)
     THEN /\ Len(waits) < MaxWaits
          /\ waits' = Append(waits, 0)
     ELSE UNCHANGED waits
  /\ UNCHANGED <<storeVars, inflight, ytInitialData, scraperUrl, lastVideoIds,
                 debounceTimeout, pollInterval, playlistObserver, startTimeout,
                 observing, pendingSets, presenterVars>>

OnMessage_REFRESH_WATCH_LATER_CancelsTimer ==
  /\ Len(waits) < MaxWaits
  /\ waits' = Append(waits, 0)
  /\ debounceTimeout' = FALSE
  /\ UNCHANGED <<storeVars, inflight, ytInitialData, scraperUrl, lastVideoIds,
                 pollInterval, playlistObserver, startTimeout,
                 observing, scraperLastUrl, pendingSets, presenterVars>>

\* case 'REFRESH_WATCH_LATER' of the scraper: waitForYtData(scrapeWatchLater)
OnMessage_REFRESH_WATCH_LATER ==
  /\ Len(waits) < MaxWaits
  /\ waits' = Append(waits, 0)
  /\ UNCHANGED <<storeVars, inflight, ytInitialData, scraperUrl, lastVideoIds,
                 debounceTimeout, pollInterval, playlistObserver, startTimeout,
                 observing, scraperLastUrl, pendingSets, presenterVars>>

\* the clock advances
Tick ==
  /\ now < EndTime
  /\ now' = now + TickMs
  /\ UNCHANGED <<syncSettings, localCacheTTL, watchLaterCache, watchLaterData,
                 cachedToken, tokenExpiryTime, lastResponse, bgInbox, tabInbox, inflight,
                 scraperVars, presenterVars>>

\* ------------------------------------------------------------ presenter
FEED_CHECK_MAX_ATTEMPTS == 50

\* the pages of the site the tab may show: the homepage, the Watch Later
\* playlist, any other page
Pages == {"home", "wl", "watch"}

\* isHomepage()
IsHomepage(href) == href = "home"

\* currentSettings?.enabled
Enabled(settings) ==
  IsSome(settings) /\ Has(Val(settings), "enabled") /\ Val(settings).enabled = TRUE

\* response.videos || []
ResponseVideos(resp) == IF Has(resp, "videos") THEN resp.videos ELSE << >>

Reverse(seq) == [i \in 1..Len(seq) |-> seq[Len(seq) + 1 - i]]

\* Array.prototype.slice(0, n)
Slice(seq, n) ==
  IF n >= 0 THEN SubSeq(seq, 1, IF n < Len(seq) THEN n ELSE Len(seq))
  ELSE SubSeq(seq, 1, IF Len(seq) + n > 0 THEN Len(seq) + n ELSE 0)

\* injectShelf's sort order and item limit
Displayed(videos, settings) ==
  LET sortOrder == IF Has(settings, "sortOrder") THEN settings.sortOrder ELSE "descending"
      itemCount == IF Has(settings, "itemCount") /\ settings.itemCount # 0
                   THEN settings.itemCount ELSE 5
  IN Slice(IF sortOrder = "descending" THEN Reverse(videos) ELSE videos, itemCount)

\* document.getElementById(WATCH_LATER_SHELF_ID)?.remove() on the elements
\* with the shelf id, in document order: the first one is removed
RemoveFirst(elements) == IF elements = << >> THEN << >> ELSE Tail(elements)

Paint_NoRemove(kind, videos) ==
  /\ shelf' = IF feedContainer
              THEN Some([kind |-> kind, videos |-> videos]) \o shelf
              ELSE shelf
  /\ shelfInjected' = TRUE
  /\ mutationPending' = TRUE
  /\ currentFocusIndex' = -1

\* insertShelfSafely(feedContainer, element) and shelfInjected = true: the
\* existing element with the shelf id is removed and the new one becomes the
\* container's first child; it is in the document while the container is
Paint(kind, videos) ==
  /\ shelf' = IF feedContainer
              THEN Some([kind |-> kind, videos |-> videos]) \o RemoveFirst(shelf)
              ELSE RemoveFirst(shelf)
  /\ shelfInjected' = TRUE
  /\ mutationPending' = TRUE
  /\ currentFocusIndex' = -1

\* injectShelf() up to its await: clear the timer, drop a shelf it injected,
\* and send GET_WATCH_LATER if enabled and the container exists
InjectShelfBegin(hadShelf, injected) ==
  /\ injectionTimeout' = FALSE
  /\ shelf' = IF injected THEN RemoveFirst(hadShelf) ELSE hadShelf
  /\ shelfInjected' = FALSE
  /\ mutationPending' = (mutationPending \/ shelf' # shelf)
  /\ IF Enabled(currentSettings) /\ feedContainer
     THEN /\ Len(inflight) < MaxInflight
          /\ inflight' = Append(inflight, [response |-> None])
     ELSE UNCHANGED inflight

\* setupNavigationObserver()
SetupNavigationObserver ==
  /\ observer' = TRUE
  /\ lastUrl' = url

\* init(): the settings arrive; off the homepage it returns, disabled it only
\* sets up the observer, else it starts waitForFeedContainer (first check)
InitSettingsLoaded ==
  /\ initState = "loading"
  /\ currentSettings' = Some(GetSettings(syncSettings))
  /\ IF ~IsHomepage(url)
     THEN /\ initState' = "done"
          /\ UNCHANGED <<isYouTubeHomepage, observer, lastUrl, shelf, shelfInjected,
                         injectionTimeout, mutationPending, inflight, feedAttempts>>
     ELSE /\ isYouTubeHomepage' = TRUE
          /\ IF ~GetSettings(syncSettings).enabled
             THEN /\ SetupNavigationObserver
                  /\ initState' = "done"
                  /\ UNCHANGED <<shelf, shelfInjected, injectionTimeout,
                                 mutationPending, inflight, feedAttempts>>
             ELSE IF feedContainer
             THEN /\ initState' = "done"
                  /\ SetupNavigationObserver
                  /\ injectionTimeout' = FALSE
                  /\ shelf' = IF shelfInjected THEN RemoveFirst(shelf) ELSE shelf
                  /\ shelfInjected' = FALSE
                  /\ mutationPending' = (mutationPending \/ shelf' # shelf)
                  /\ Len(inflight) < MaxInflight
                  /\ inflight' = Append(inflight, [response |-> None])
                  /\ UNCHANGED feedAttempts
             ELSE /\ initState' = "waiting"
                  /\ feedAttempts' = 1
                  /\ UNCHANGED <<observer, lastUrl, shelf, shelfInjected,
                                 injectionTimeout, mutationPending, inflight>>
  /\ UNCHANGED <<storeVars, scraperVars, url, feedContainer, currentFocusIndex>>

FeedPoll_OneMore ==
  /\ initState = "waiting"
  /\ IF feedContainer
     THEN /\ initState' = "done"
          /\ SetupNavigationObserver
          /\ InjectShelfBegin(shelf, shelfInjected)
          /\ UNCHANGED feedAttempts
     ELSE /\ feedAttempts' = feedAttempts + 1
          /\ initState' = IF feedAttempts + 1 > FEED_CHECK_MAX_ATTEMPTS
                          THEN "failed" ELSE "waiting"
          /\ UNCHANGED <<observer, lastUrl, shelf, shelfInjected, injectionTimeout,
                         mutationPending, inflight>>
  /\ UNCHANGED <<storeVars, scraperVars, url, isYouTubeHomepage, currentSettings,
                 feedContainer, currentFocusIndex>>

\* one later checkFeed() of waitForFeedContainer
FeedPoll ==
  /\ initState = "waiting"
  /\ IF feedContainer
     THEN /\ initState' = "done"
          /\ SetupNavigationObserver
          /\ InjectShelfBegin(shelf, shelfInjected)
          /\ UNCHANGED feedAttempts
     ELSE /\ feedAttempts' = feedAttempts + 1
          /\ initState' = IF feedAttempts + 1 >= FEED_CHECK_MAX_ATTEMPTS
                          THEN "failed" ELSE "waiting"
          /\ UNCHANGED <<observer, lastUrl, shelf, shelfInjected, injectionTimeout,
                         mutationPending, inflight>>
  /\ UNCHANGED <<storeVars, scraperVars, url, isYouTubeHomepage, currentSettings,
                 feedContainer, currentFocusIndex>>

\* the navigation observer's callback runs after a document mutation
ObserverCallback ==
  /\ observer
  /\ mutationPending
  /\ LET urlChanged == url # lastUrl
         wasHomepage == isYouTubeHomepage
         nowHome == IF urlChanged THEN IsHomepage(url) ELSE isYouTubeHomepage
         toHome == urlChanged /\ nowHome /\ ~wasHomepage
         away == urlChanged /\ ~nowHome /\ wasHomepage
         shelf1 == IF toHome \/ away THEN RemoveFirst(shelf) ELSE shelf
         injected1 == IF toHome \/ (away /\ IsSome(shelf)) THEN FALSE ELSE shelfInjected
         timeout1 == IF toHome THEN TRUE ELSE injectionTimeout
         removed == nowHome /\ injected1 /\ ~IsSome(shelf1)
     IN /\ lastUrl' = url
        /\ isYouTubeHomepage' = nowHome
        /\ shelf' = shelf1
        /\ shelfInjected' = IF removed THEN FALSE ELSE injected1
        /\ injectionTimeout' = IF removed THEN TRUE ELSE timeout1
        /\ mutationPending' = (shelf1 # shelf)
  /\ UNCHANGED <<storeVars, scraperVars, inflight, url, currentSettings, observer,
                 feedContainer, initState, feedAttempts,
                 currentFocusIndex>>

\* the timer of scheduleInjection fires: injectShelf()
InjectionTimerFires ==
  /\ injectionTimeout
  /\ InjectShelfBegin(shelf, shelfInjected)
  /\ UNCHANGED <<storeVars, scraperVars, url, lastUrl, isYouTubeHomepage,
                 currentSettings, observer, feedContainer, initState, feedAttempts,
                 currentFocusIndex>>

\* injectShelf() after its await, run i: paint what the response calls for
InjectShelfResume(i) ==
  /\ i \in 1..Len(inflight)
  /\ IsSome(inflight[i].response)
  /\ inflight' = Remove(inflight, i)
  /\ LET resp == Val(inflight[i].response)
         videos == ResponseVideos(resp)
     IN IF ~resp.success
        THEN IF Has(resp, "needsRefresh") /\ resp.needsRefresh
             THEN Paint("firstTime", << >>)
             ELSE Paint("error", << >>)
        ELSE IF Len(videos) = 0
        THEN IF ~IsSome(currentSettings)
             THEN Paint("error", << >>)  \* currentSettings.showEmptyState throws
             ELSE IF Has(Val(currentSettings), "showEmptyState")
                     /\ Val(currentSettings).showEmptyState = TRUE
             THEN Paint("empty", << >>)
             ELSE UNCHANGED <<shelf, shelfInjected, mutationPending,
                              currentFocusIndex>>
        ELSE Paint("content", Displayed(videos, IF IsSome(currentSettings)
                                                THEN Val(currentSettings) ELSE << >>))
  /\ UNCHANGED <<storeVars, scraperVars, url, lastUrl, isYouTubeHomepage,
                 currentSettings, observer, injectionTimeout, feedContainer,
                 initState, feedAttempts>>

\* the retry button of the error view is clicked
RetryClicked ==
  /\ IsSome(shelf)
  /\ Val(shelf).kind = "error"
  /\ InjectShelfBegin(RemoveFirst(shelf), FALSE)
  /\ UNCHANGED <<storeVars, scraperVars, url, lastUrl, isYouTubeHomepage,
                 currentSettings, observer, feedContainer, initState, feedAttempts,
                 currentFocusIndex>>

OnMessage_SETTINGS_UPDATED_OnlyIfShelf ==
  /\ tabInbox # << >>
  /\ Head(tabInbox).type = "SETTINGS_UPDATED"
  /\ tabInbox' = Tail(tabInbox)
  /\ currentSettings' = Some(Head(tabInbox).settings)
  /\ IF isYouTubeHomepage /\ shelfInjected
     THEN /\ shelfInjected' = FALSE
          /\ shelf' = RemoveFirst(shelf)
          /\ mutationPending' = (mutationPending \/ IsSome(shelf))
          /\ injectionTimeout' = (injectionTimeout \/ Enabled(currentSettings'))
     ELSE UNCHANGED <<shelfInjected, shelf, mutationPending, injectionTimeout>>
  /\ UNCHANGED <<now, syncSettings, localCacheTTL, watchLaterCache, watchLaterData,
                 cachedToken, tokenExpiryTime, lastResponse, bgInbox, inflight,
                 scraperVars, url, lastUrl, isYouTubeHomepage, observer,
                 feedContainer, initState, feedAttempts,
                 currentFocusIndex>>

\* onMessage 'SETTINGS_UPDATED'
OnMessage_SETTINGS_UPDATED ==
  /\ tabInbox # << >>
  /\ Head(tabInbox).type = "SETTINGS_UPDATED"
  /\ tabInbox' = Tail(tabInbox)
  /\ currentSettings' = Some(Head(tabInbox).settings)
  /\ IF isYouTubeHomepage
     THEN /\ shelfInjected' = FALSE
          /\ shelf' = RemoveFirst(shelf)
          /\ mutationPending' = (mutationPending \/ IsSome(shelf))
          /\ injectionTimeout' = (injectionTimeout \/ Enabled(currentSettings'))
     ELSE UNCHANGED <<shelfInjected, shelf, mutationPending, injectionTimeout>>
  /\ UNCHANGED <<now, syncSettings, localCacheTTL, watchLaterCache, watchLaterData,
                 cachedToken, tokenExpiryTime, lastResponse, bgInbox, inflight,
                 scraperVars, url, lastUrl, isYouTubeHomepage, observer,
                 feedContainer, initState, feedAttempts,
                 currentFocusIndex>>

\* onMessage 'DATA_REFRESHED'
OnMessage_DATA_REFRESHED(count) ==
  /\ IF Enabled(currentSettings)
     THEN /\ shelfInjected' = FALSE
          /\ shelf' = RemoveFirst(shelf)
          /\ mutationPending' = (mutationPending \/ IsSome(shelf))
          /\ IF IsHomepage(url)
             THEN /\ isYouTubeHomepage' = TRUE
                  /\ injectionTimeout' = TRUE
             ELSE UNCHANGED <<isYouTubeHomepage, injectionTimeout>>
     ELSE UNCHANGED <<shelfInjected, shelf, mutationPending, isYouTubeHomepage,
                      injectionTimeout>>
  /\ UNCHANGED <<storeVars, scraperVars, inflight, url, lastUrl, currentSettings,
                 observer, feedContainer, initState, feedAttempts,
                 currentFocusIndex>>

\* the user navigates within the site (the page's own scripts rebuild the
\* document, which the observer sees)
Navigate(page) ==
  /\ page \in Pages
  /\ page # url
  /\ url' = page
  /\ mutationPending' = TRUE
  /\ UNCHANGED <<storeVars, scraperVars, inflight, lastUrl, isYouTubeHomepage,
                 shelfInjected, currentSettings, observer, injectionTimeout, shelf,
                 feedContainer, initState, feedAttempts,
                 currentFocusIndex>>

\* the host page re-renders its feed and drops the shelf element
HostRemovesShelf ==
  /\ IsSome(shelf)
  /\ shelf' = None
  /\ mutationPending' = TRUE
  /\ UNCHANGED <<storeVars, scraperVars, inflight, url, lastUrl, isYouTubeHomepage,
                 shelfInjected, currentSettings, observer, injectionTimeout,
                 feedContainer, initState, feedAttempts,
                 currentFocusIndex>>

\* the host page builds its feed container
FeedAppears ==
  /\ ~feedContainer
  /\ feedContainer' = TRUE
  /\ mutationPending' = TRUE
  /\ UNCHANGED <<storeVars, scraperVars, inflight, url, lastUrl, isYouTubeHomepage,
                 shelfInjected, currentSettings, observer, injectionTimeout, shelf,
                 initState, feedAttempts,
                 currentFocusIndex>>

\* the host page removes its feed container, and any shelf inside it
FeedRemoved ==
  /\ feedContainer
  /\ feedContainer' = FALSE
  /\ shelf' = None
  /\ mutationPending' = TRUE
  /\ UNCHANGED <<storeVars, scraperVars, inflight, url, lastUrl, isYouTubeHomepage,
                 shelfInjected, currentSettings, observer, injectionTimeout,
                 initState, feedAttempts,
                 currentFocusIndex>>

\* the await of chrome.runtime.sendMessage in injectShelf resolves with resp
SendMessageResolves(i, resp) ==
  /\ i \in 1..Len(inflight)
  /\ ~IsSome(inflight[i].response)
  /\ inflight' = [inflight EXCEPT ![i].response = Some(resp)]
  /\ UNCHANGED <<storeVars, scraperVars, presenterVars>>

\* the cards of the rendered carousel: cards.length
Cards == IF IsSome(shelf) /\ Val(shelf).kind = "content" THEN Len(Val(shelf).videos) ELSE 0

\* focusCard(cards, index): the index after the call
FocusCard(cards, index) ==
  IF index >= 0 /\ index < cards THEN index ELSE currentFocusIndex

NavigateCards_NoWrap(cards, direction) ==
  IF currentFocusIndex = -1 THEN FocusCard(cards, 0)
  ELSE IF direction = "next"
  THEN FocusCard(cards, currentFocusIndex + 1)
  ELSE FocusCard(cards, currentFocusIndex - 1)

\* navigateCards(cards, direction): the index after the call
NavigateCards(cards, direction) ==
  IF currentFocusIndex = -1 THEN FocusCard(cards, 0)
  ELSE IF direction = "next"
  THEN FocusCard(cards, (currentFocusIndex + 1) % cards)
  ELSE FocusCard(cards, IF currentFocusIndex - 1 < 0 THEN cards - 1
                        ELSE currentFocusIndex - 1)

\* the keys a user may press in the carousel
Keys == {"ArrowLeft", "ArrowRight", "Home", "End", "Tab"}

\* the carousel's keydown listener: the index after it has handled key
KeyResult(key) ==
  CASE key = "ArrowLeft" -> NavigateCards(Cards, "prev")
    [] key = "ArrowRight" -> NavigateCards(Cards, "next")
    [] key = "Home" -> FocusCard(Cards, 0)
    [] key = "End" -> FocusCard(Cards, Cards - 1)
    [] OTHER -> currentFocusIndex

\* a key is pressed in the carousel
KeyDown(key) ==
  /\ Cards > 0
  /\ currentFocusIndex' = KeyResult(key)
  /\ UNCHANGED <<storeVars, scraperVars, inflight, url, lastUrl, isYouTubeHomepage,
                 shelfInjected, currentSettings, observer, injectionTimeout, shelf,
                 feedContainer, mutationPending, initState, feedAttempts>>

\* a card's focus listener: the card at index gets the focus (click, Tab)
CardFocused(index) ==
  /\ index \in 0..(Cards - 1)
  /\ currentFocusIndex' = index
  /\ UNCHANGED <<storeVars, scraperVars, inflight, url, lastUrl, isYouTubeHomepage,
                 shelfInjected, currentSettings, observer, injectionTimeout, shelf,
                 feedContainer, mutationPending, initState, feedAttempts>>

\* ------------------------------------------------------- specifications
vars == <<storeVars, inflight, scraperVars, presenterVars>>

\* after installation of the content scripts: nothing stored, the source
\* page loaded with its data, its scraper's init() about to do its first check
InitProgram ==
  /\ now = StartTime
  /\ localCacheTTL = None
  /\ watchLaterCache = None
  /\ watchLaterData = None
  /\ cachedToken = FALSE
  /\ tokenExpiryTime = 0
  /\ lastResponse = None
  /\ bgInbox = << >>
  /\ tabInbox = << >>
  /\ inflight = << >>
  /\ scraperUrl = "wl"
  /\ waits = <<0>>
  /\ lastVideoIds = {}
  /\ debounceTimeout = FALSE
  /\ pollInterval = TRUE
  /\ playlistObserver = TRUE
  /\ startTimeout = TRUE
  /\ observing = FALSE
  /\ scraperLastUrl = "wl"
  /\ pendingSets = {}
  /\ isYouTubeHomepage = FALSE
  /\ shelfInjected = FALSE
  /\ currentSettings = None
  /\ observer = FALSE
  /\ injectionTimeout = FALSE
  /\ shelf = None
  /\ feedContainer = TRUE
  /\ mutationPending = FALSE
  /\ initState = "loading"
  /\ feedAttempts = 0
  /\ currentFocusIndex = -1

\* a fresh installation: no settings stored yet
InitBase ==
  /\ InitProgram
  /\ syncSettings = None

Init ==
  /\ InitBase
  /\ ytInitialData = PageData("primary", <<RawVideo(1), RawVideo(2)>>)
  /\ url = "home"
  /\ lastUrl = "home"

\* the content script may be loaded on any page of the site
InitAnyPage ==
  /\ InitBase
  /\ ytInitialData = PageData("primary", <<RawVideo(1), RawVideo(2)>>)
  /\ url \in Pages
  /\ lastUrl = url

\* time-to-live values a settings page may send, in minutes
TTLInputs == {3, 10, 100}

\* the background's cache and its freshness: clock, TTL setting, reads, clear
NextCache ==
  \/ Tick
  \/ \E t \in TTLInputs :
       OnMessage_SAVE_SETTINGS([enabled |-> TRUE, itemCount |-> 5, cacheTTL |-> t,
                                showEmptyState |-> TRUE])
  \/ \E f \in BOOLEAN, id \in IdentityOutcomes, api \in ApiOutcomes :
       OnMessage_GET_WATCH_LATER("other", f, id, api)
  \/ OnMessage_CLEAR_CACHE
  \/ TabDrops

SpecCache == Init /\ [][NextCache]_vars

\* what the source page may hold: two videos, one, none, only a malformed
\* item (on either path), or no playlist array at all
ScrapePages ==
  {PageData("primary", <<RawVideo(1), RawVideo(2)>>),
   PageData("primary", <<RawVideo(1)>>),
   PageData("primary", << >>),
   PageData("primary", <<Malformed>>),
   PageData("alt", <<Malformed>>),
   PageData("none", << >>)}

\* the scraper with its change detection, its storage entry and its
\* notification to the background
NextExtract ==
  \/ Tick
  \/ \E i \in 1..Len(waits) : CheckData(i, None)
  \/ OnMessage_REFRESH_WATCH_LATER
  \/ \E d \in ScrapePages : PageDataChanges(d)
  \/ \E found \in BOOLEAN : StartTimerFires(found)
  \/ PollFires
  \/ \E relevant \in BOOLEAN : MutationCallback(relevant)
  \/ DebounceFires
  \/ OnMessage_default

SpecExtract == Init /\ [][NextExtract]_vars

\* what the source page may hold while change detection runs
DetectPages ==
  {PageData("primary", <<RawVideo(1), RawVideo(2)>>),
   PageData("primary", <<RawVideo(1)>>),
   PageData("primary", << >>),
   PageData("none", << >>)}

\* the pages the source page's tab may show: the Watch Later playlist or
\* another page
ScraperPages == {"wl", "other"}

\* change detection with navigation of the source page's tab
NextDetect ==
  \/ \E i \in 1..Len(waits) : CheckData(i, None)
  \/ \E found \in BOOLEAN : StartTimerFires(found)
  \/ PollFires
  \/ \E relevant \in BOOLEAN : MutationCallback(relevant)
  \/ DebounceFires
  \/ \E d \in DetectPages : PageDataChanges(d)
  \/ \E href \in ScraperPages, d \in DetectPages : ScraperNavigate(href, d)
  \/ NavListenerCallback
  \/ OnMessage_default

SpecDetect == Init /\ [][NextDetect]_vars

\* raw items of the extraction's inputs: two videos, a second item with the
\* id of the first, a renderer without id, one without title, an item
\* without renderer, a null entry
RawItems ==
  {RawVideo(1), RawVideo(2),
   [renderer |-> TRUE, videoId |-> 1, title |-> "u"],
   [renderer |-> TRUE, videoId |-> 0, title |-> "t"],
   [renderer |-> TRUE, videoId |-> 2, title |-> ""],
   Malformed, NullItem}

RECURSIVE SeqsUpTo(_, _)
SeqsUpTo(S, n) ==
  IF n = 0 THEN {<< >>}
  ELSE LET shorter == SeqsUpTo(S, n - 1)
       IN shorter \cup {Append(l, x) : l \in {m \in shorter : Len(m) = n - 1}, x \in S}

\* every page data up to MaxItems raw items, on either path, or without array
AllPageDatas ==
  {PageData(path, l) : path \in {"primary", "alt"}, l \in SeqsUpTo(RawItems, MaxItems)}
    \cup {PageData("none", << >>)}

InitAnyData ==
  /\ InitBase
  /\ ytInitialData \in AllPageDatas
  /\ url = "home"
  /\ lastUrl = "home"

\* extraction applied to every input: the scrape of the loaded page, manual
\* re-scrapes, and the background taking the notifications
NextScrape ==
  \/ \E i \in 1..Len(waits) : CheckData(i, None)
  \/ OnMessage_REFRESH_WATCH_LATER
  \/ OnMessage_default

SpecScrape == InitAnyData /\ [][NextScrape]_vars

\* raw items none of which yields a record
MalformedItems ==
  {Malformed, NullItem,
   [renderer |-> TRUE, videoId |-> 0, title |-> "t"],
   [renderer |-> TRUE, videoId |-> 0, title |-> ""]}

\* the source page holds a non-empty array of malformed items only, the
\* homepage tab is open
InitAllMalformed ==
  /\ InitBase
  /\ ytInitialData \in {PageData("primary", l) :
                          l \in SeqsUpTo(MalformedItems, MaxItems) \ {<< >>}}
  /\ url = "home"
  /\ lastUrl = "home"

\* from the scrape to the homepage's view: the scraper, the background and
\* the homepage content script with its settings
NextEndToEnd ==
  \/ \E i \in 1..Len(waits) : CheckData(i, None)
  \/ OnMessage_default
  \/ InitSettingsLoaded
  \/ \E id \in {"token", "none"}, api \in ApiOutcomes :
       OnMessage_GET_WATCH_LATER("injector", FALSE, id, api)
  \/ \E i \in 1..Len(inflight) : InjectShelfResume(i)
  \/ InjectionTimerFires
  \/ RetryClicked
  \/ \E e \in BOOLEAN :
       OnMessage_SAVE_SETTINGS([enabled |-> TRUE, itemCount |-> 5, cacheTTL |-> 20,
                                showEmptyState |-> e])
  \/ OnMessage_SETTINGS_UPDATED

SpecEndToEnd == InitAllMalformed /\ [][NextEndToEnd]_vars

\* playlists of one to MaxRecords videos, in source order
RenderLists == {[i \in 1..k |-> Video(i)] : k \in 1..MaxRecords}

\* item counts a settings page may send
ItemCountInputs == {3, 4, 10}

\* the shelf's content: the background holding a playlist, the homepage
\* content script rendering it under the item count of its settings
NextRender ==
  \/ InitSettingsLoaded
  \/ \E l \in RenderLists :
       OnMessage_GET_WATCH_LATER("injector", FALSE, "token", [kind |-> "ok", items |-> l])
  \/ \E i \in 1..Len(inflight) : InjectShelfResume(i)
  \/ InjectionTimerFires
  \/ \E n \in ItemCountInputs :
       OnMessage_SAVE_SETTINGS([enabled |-> TRUE, itemCount |-> n, cacheTTL |-> 20,
                                showEmptyState |-> TRUE])
  \/ OnMessage_SETTINGS_UPDATED
  \/ TabDrops

SpecRender == Init /\ [][NextRender]_vars

\* init's wait for the feed container, and the views of a failed fetch with
\* their retry button
NextFeed ==
  \/ InitSettingsLoaded
  \/ FeedPoll
  \/ FeedAppears
  \/ FeedRemoved
  \/ \E id \in {"token", "none"}, api \in ApiOutcomes :
       OnMessage_GET_WATCH_LATER("injector", FALSE, id, api)
  \/ \E i \in 1..Len(inflight) : InjectShelfResume(i)
  \/ RetryClicked

SpecFeed == Init /\ [][NextFeed]_vars

\* the data flow from the scraper's write to a reader's request
FlowPages == {PageData("primary", <<RawVideo(1), RawVideo(2)>>), PageData("primary", << >>)}

NextFlow ==
  \/ Tick
  \/ \E i \in 1..Len(waits) : CheckData(i, None)
  \/ OnMessage_REFRESH_WATCH_LATER
  \/ \E d \in FlowPages : PageDataChanges(d)
  \/ OnMessage_default
  \/ \E id \in IdentityOutcomes, api \in ApiOutcomes :
       OnMessage_GET_WATCH_LATER("other", FALSE, id, api)

SpecFlow == Init /\ [][NextFlow]_vars

\* settings objects a SAVE_SETTINGS message may carry: full objects with
\* item counts and TTLs in and out of range, an object with one field only,
\* and the options page's object with its two further fields
FullSettings(n, t) ==
  [enabled |-> TRUE, itemCount |-> n, cacheTTL |-> t, showEmptyState |-> TRUE]
SettingsInputs ==
  {FullSettings(n, 20) : n \in {2, 3, 10, 99}}
    \cup {FullSettings(5, t) : t \in {0, 3, 5, 60, 100, 1441}}
    \cup {FullSettings(0, 2000),
          [itemCount |-> 7],
          [enabled |-> FALSE, itemCount |-> 4, cacheTTL |-> 30, showEmptyState |-> FALSE,
           thumbnailSize |-> "large", autoRefresh |-> TRUE]}

\* the settings store and its broadcast to the homepage tab
NextSettings ==
  \/ \E settings \in SettingsInputs : OnMessage_SAVE_SETTINGS(settings)
  \/ OnMessage_RESET_SETTINGS
  \/ OnMessage_GET_SETTINGS
  \/ \E reason \in {"install", "update"} : OnInstalled(reason)
  \/ OnMessage_SETTINGS_UPDATED
  \/ TabDrops

SpecSettings == Init /\ [][NextSettings]_vars

\* the homepage content script with the background it talks to
NextPresenter ==
  \/ InitSettingsLoaded
  \/ ObserverCallback
  \/ InjectionTimerFires
  \/ \E i \in 1..Len(inflight) : InjectShelfResume(i)
  \/ RetryClicked
  \/ OnMessage_SETTINGS_UPDATED
  \/ \E c \in {0, 2} : OnMessage_DATA_REFRESHED(c)
  \/ \E page \in Pages : Navigate(page)
  \/ HostRemovesShelf
  \/ \E e \in BOOLEAN :
       OnMessage_SAVE_SETTINGS([enabled |-> e, itemCount |-> 5, cacheTTL |-> 20,
                                showEmptyState |-> TRUE])
  \/ \E id \in {"token", "none"}, api \in {[kind |-> "ok", items |-> << >>]} :
       OnMessage_GET_WATCH_LATER("injector", FALSE, id, api)

SpecPresenter == InitAnyPage /\ [][NextPresenter]_vars

\* re-entry of the homepage content script after in-page navigation: loaded
\* on any page, with or without the feed container, default (enabled) settings
NextReentry ==
  \/ InitSettingsLoaded
  \/ FeedPoll
  \/ FeedAppears
  \/ FeedRemoved
  \/ ObserverCallback
  \/ InjectionTimerFires
  \/ \E page \in Pages : Navigate(page)
  \/ OnMessage_GET_WATCH_LATER("injector", FALSE, "none", [kind |-> "error"])
  \/ \E i \in 1..Len(inflight) : InjectShelfResume(i)

\* timers, promise continuations and observer callbacks that are due do run,
\* and the background answers every request
ReentryFairness ==
  /\ WF_vars(InitSettingsLoaded)
  /\ WF_vars(FeedPoll)
  /\ WF_vars(ObserverCallback)
  /\ WF_vars(InjectionTimerFires)
  /\ WF_vars(OnMessage_GET_WATCH_LATER("injector", FALSE, "none", [kind |-> "error"]))
  /\ WF_vars(\E i \in 1..Len(inflight) : InjectShelfResume(i))

SpecReentry == InitAnyPage /\ [][NextReentry]_vars /\ ReentryFairness

\* self-healing of the shelf: the homepage content script loaded on any page,
\* the host page dropping the shelf, the notifications that schedule an
\* injection, and the background answering with a failure or an empty list
NextHeal ==
  \/ InitSettingsLoaded
  \/ ObserverCallback
  \/ InjectionTimerFires
  \/ \E i \in 1..Len(inflight) : InjectShelfResume(i)
  \/ \E page \in Pages : Navigate(page)
  \/ HostRemovesShelf
  \/ OnMessage_DATA_REFRESHED(0)
  \/ \E id \in {"token", "none"} :
       OnMessage_GET_WATCH_LATER("injector", FALSE, id, [kind |-> "ok", items |-> << >>])

HealFairness ==
  /\ WF_vars(InitSettingsLoaded)
  /\ WF_vars(ObserverCallback)
  /\ WF_vars(InjectionTimerFires)
  /\ WF_vars(\E id \in {"token", "none"} :
               OnMessage_GET_WATCH_LATER("injector", FALSE, id,
                                         [kind |-> "ok", items |-> << >>]))
  /\ WF_vars(\E i \in 1..Len(inflight) : InjectShelfResume(i))

SpecHeal == InitAnyPage /\ [][NextHeal]_vars /\ HealFairness

\* the empty playlist under either showEmptyState setting: the background
\* holding an empty or a one-video playlist, the settings page switching the
\* empty-state view, the data-changed notification, the host page dropping
\* the shelf; the user stays on the homepage
NextIdle ==
  \/ InitSettingsLoaded
  \/ ObserverCallback
  \/ InjectionTimerFires
  \/ \E i \in 1..Len(inflight) : InjectShelfResume(i)
  \/ HostRemovesShelf
  \/ \E e \in BOOLEAN :
       OnMessage_SAVE_SETTINGS([enabled |-> TRUE, itemCount |-> 5, cacheTTL |-> 20,
                                showEmptyState |-> e])
  \/ OnMessage_SETTINGS_UPDATED
  \/ \E c \in {0, 1} : OnMessage_DATA_REFRESHED(c)
  \/ \E l \in {<< >>, <<Video(3)>>} :
       OnMessage_GET_WATCH_LATER("injector", FALSE, "token", [kind |-> "ok", items |-> l])

SpecIdle == Init /\ [][NextIdle]_vars

\* objects the settings key of the sync storage may hold: nothing, or any
\* selection of the fields of a current or a legacy object (declared fields
\* and one more)
StoredObjects ==
  LET full == {[enabled |-> FALSE, itemCount |-> 7, cacheTTL |-> 30,
                showEmptyState |-> FALSE, thumbnailSize |-> "large"],
               [enabled |-> TRUE, itemCount |-> 3, cacheTTL |-> 60,
                showEmptyState |-> TRUE, thumbnailSize |-> "small"]}
  IN {None} \cup UNION {{Some([f \in D |-> r[f]]) : D \in SUBSET DOMAIN r} : r \in full}

InitStored ==
  /\ InitProgram
  /\ syncSettings \in StoredObjects
  /\ ytInitialData = PageData("primary", <<RawVideo(1), RawVideo(2)>>)
  /\ url = "home"
  /\ lastUrl = "home"

\* the readers of the stored settings: GET_SETTINGS, the content script's
\* loadSettings, the update handler
NextGetSettings ==
  \/ OnMessage_GET_SETTINGS
  \/ InitSettingsLoaded
  \/ OnInstalled("update")
  \/ OnMessage_RESET_SETTINGS
  \/ TabDrops

SpecGetSettings == InitStored /\ [][NextGetSettings]_vars

\* the data flow with the cache cleared from the settings page
NextClear ==
  \/ Tick
  \/ \E i \in 1..Len(waits) : CheckData(i, None)
  \/ OnMessage_REFRESH_WATCH_LATER
  \/ \E d \in FlowPages : PageDataChanges(d)
  \/ OnMessage_default
  \/ \E id \in IdentityOutcomes, api \in ApiOutcomes :
       OnMessage_GET_WATCH_LATER("other", FALSE, id, api)
  \/ OnMessage_CLEAR_CACHE

SpecClear == Init /\ [][NextClear]_vars

\* overlapping extraction runs (the scrape of the loaded page, manual
\* re-scrapes) with their storage writes completing in any order
NextWrites ==
  \/ Tick
  \/ \E i \in 1..Len(waits) : CheckDataBegin(i, None)
  \/ \E d \in pendingSets : SaveToStorageResume(d)
  \/ OnMessage_REFRESH_WATCH_LATER
  \/ \E d \in FlowPages : PageDataChanges(d)
  \/ OnMessage_default

SpecWrites == Init /\ [][NextWrites]_vars

\* keyboard navigation in the rendered carousel: the content script's request
\* answered with a playlist of one to MaxRecords videos, the shelf rendered
\* from it under the item count of the settings, key presses and focus
\* events, the shelf dropped and rendered again
NextKeys ==
  \/ InitSettingsLoaded
  \/ \E i \in 1..Len(inflight), l \in RenderLists :
       SendMessageResolves(i, [success |-> TRUE, videos |-> l])
  \/ \E i \in 1..Len(inflight) : InjectShelfResume(i)
  \/ \E key \in Keys : KeyDown(key)
  \/ \E index \in 0..(MaxRecords - 1) : CardFocused(index)
  \/ HostRemovesShelf
  \/ ObserverCallback
  \/ InjectionTimerFires
  \/ \E n \in ItemCountInputs :
       OnMessage_SAVE_SETTINGS([enabled |-> TRUE, itemCount |-> n, cacheTTL |-> 20,
                                showEmptyState |-> TRUE])
  \/ OnMessage_SETTINGS_UPDATED

SpecKeys == Init /\ [][NextKeys]_vars

\* the URLs of a thumbnail entry; "" for an entry without url
ThumbUrls == {"a", "b", "c", ""}

\* the source page holds one video with a thumbnail list of up to MaxThumbs
\* entries
InitThumbs ==
  /\ InitBase
  /\ ytInitialData \in
       {PageData("primary", <<[renderer |-> TRUE, videoId |-> 1, title |-> "t",
                               thumbnails |-> tl]>>) :
          tl \in SeqsUpTo(ThumbUrls, MaxThumbs)}
  /\ url = "home"
  /\ lastUrl = "home"

SpecThumbs == InitThumbs /\ [][NextScrape]_vars

\* whether a data object has the populated marker (.contents)
Populated(data) == IsSome(data) /\ Val(data).contents

\* window.ytInitialData set by the page but without its contents yet
Unpopulated == Some([contents |-> FALSE, path |-> "none", items |-> << >>])

\* what the window may hold while a waitForYtData run polls: nothing, the
\* unpopulated object, or a playlist (of one video or none)
WaitPages ==
  {None, Unpopulated, PageData("primary", <<RawVideo(1)>>), PageData("primary", << >>)}

\* what extractYtInitialDataFromDOM may return: null, an object without
\* contents, or a playlist
DomDatas == {None, Unpopulated, PageData("primary", <<RawVideo(2)>>)}

\* the source page is loaded, its data in any of these conditions
InitWait ==
  /\ InitBase
  /\ ytInitialData \in WaitPages
  /\ url = "home"
  /\ lastUrl = "home"

\* the polls of waitForYtData while the page fills in (or never fills in) its
\* data, manual re-scrapes, and the background taking the notifications
NextWait ==
  \/ \E i \in 1..Len(waits), fromDOM \in DomDatas : CheckData(i, fromDOM)
  \/ \E d \in WaitPages : PageDataChanges(d)
  \/ OnMessage_REFRESH_WATCH_LATER
  \/ OnMessage_default

SpecWait == InitWait /\ [][NextWait]_vars

\* the messages of the background's storage operations: reads of the
\* playlist (forced or not), the clearing of the cache, the read and the
\* save of the settings
StorageMessages ==
  {[type |-> t] : t \in {"CLEAR_CACHE", "GET_SETTINGS"}}
    \cup {[type |-> "GET_WATCH_LATER", forceRefresh |-> f] : f \in BOOLEAN}
    \cup {[type |-> "SAVE_SETTINGS", settings |-> FullSettings(7, 30)]}

\* the accesses the handling of a message of this type may perform
AccessesOf(type) ==
  CASE type \in {"GET_WATCH_LATER", "REFRESH_CACHE"} -> {"getCache", "getTTL", "setCache"}
    [] type = "CLEAR_CACHE" -> {"removeCache"}
    [] type = "GET_SETTINGS" -> {"getSettings"}
    [] type \in {"SAVE_SETTINGS", "RESET_SETTINGS"} -> {"setSettings", "setTTL", "tabsQuery"}
    [] OTHER -> {}

\* in the handling of one message no access throws, or one of those it
\* performs does
IOs(message) == {{}} \cup {{a} : a \in AccessesOf(message.type)}

\* the background's storage operations while the accesses may throw, and the
\* scraper's first scrape, whose storage write may complete or fail
NextStorage ==
  \/ Tick
  \/ \E message \in StorageMessages :
       \E io \in IOs(message) :
         OnMessage(message, io, "token", [kind |-> "ok", items |-> <<Video(3)>>])
  \/ TabDrops
  \/ \E i \in 1..Len(waits) : CheckDataBegin(i, None)
  \/ \E d \in pendingSets : SaveToStorageResume(d)
  \/ \E d \in pendingSets : SaveToStorageRejects(d)

SpecStorage == Init /\ [][NextStorage]_vars

\* overlapping extraction runs whose storage writes complete in any order or
\* fail, and the background taking the notifications
NextNotify ==
  \/ Tick
  \/ \E i \in 1..Len(waits) : CheckDataBegin(i, None)
  \/ \E d \in pendingSets : SaveToStorageResume(d)
  \/ \E d \in pendingSets : SaveToStorageRejects(d)
  \/ OnMessage_REFRESH_WATCH_LATER
  \/ \E d \in FlowPages : PageDataChanges(d)
  \/ OnMessage_default

SpecNotify == Init /\ [][NextNotify]_vars

\* the message types of the listener's switch
MessageTypes ==
  {"CHECK_AUTH", "GET_AUTH_TOKEN", "SIGN_IN", "SIGN_OUT", "GET_WATCH_LATER",
   "REFRESH_CACHE", "CLEAR_CACHE", "GET_SETTINGS", "SAVE_SETTINGS", "RESET_SETTINGS"}

\* the messages the background may receive: one of each type of the switch
\* (SAVE_SETTINGS without its settings object), a forced GET_WATCH_LATER, a
\* SAVE_SETTINGS with settings, the scraper's notification and another
\* message of no known type
AnyMessages ==
  {[type |-> t] : t \in MessageTypes \cup {"WATCH_LATER_UPDATED", "PING"}}
    \cup {[type |-> "GET_WATCH_LATER", forceRefresh |-> TRUE],
          [type |-> "SAVE_SETTINGS", settings |-> FullSettings(7, 30)]}

\* the outcomes of the identity API and of the playlist API that the handling
\* of a message of this type can meet (one stand-in where it calls neither)
IdentitiesOf(type) ==
  IF type \in {"CHECK_AUTH", "GET_AUTH_TOKEN", "SIGN_IN", "GET_WATCH_LATER", "REFRESH_CACHE"}
  THEN IdentityOutcomes ELSE {"none"}
ApisOf(type) ==
  IF type \in {"GET_WATCH_LATER", "REFRESH_CACHE"}
  THEN {[kind |-> "ok", items |-> <<Video(3)>>], [kind |-> "authFailed"], [kind |-> "error"]}
  ELSE {[kind |-> "error"]}

\* the background's message listener alone: messages of every type, with
\* every outcome of the identity API and of the playlist API, while no access
\* throws or one does
NextMessages ==
  \/ Tick
  \/ TabDrops
  \/ \E message \in AnyMessages :
       \E io \in IOs(message), identity \in IdentitiesOf(message.type),
          api \in ApisOf(message.type) :
         OnMessage(message, io, identity, api)

SpecMessages == Init /\ [][NextMessages]_vars

\* ================================================================ claims

\* C1 (SpecFlow): while the entry the scraper wrote is present and no older
\* than the TTL, a GET_WATCH_LATER request succeeds and returns exactly the
\* videos of that entry, in their order (read from `videos`, or from `items`
\* when the response has no `videos`).
C1_FreshEntryIsReturned ==
  [][(/\ \E id \in IdentityOutcomes, api \in ApiOutcomes :
           OnMessage_GET_WATCH_LATER("other", FALSE, id, api)
      /\ IsSome(watchLaterData)
      /\ now - Val(watchLaterData).timestamp
           <= GetSettings(syncSettings).cacheTTL * MinuteMs)
     => LET resp == Val(lastResponse')
            returned == IF Has(resp, "videos") THEN resp.videos
                        ELSE IF Has(resp, "items") THEN resp.items ELSE << >>
        IN resp.success /\ returned = Val(watchLaterData).videos]_vars

C3_SaveClamps ==
  [][\A s \in SettingsInputs :
       (OnMessage_SAVE_SETTINGS(s) /\ Has(s, "itemCount") /\ Has(s, "cacheTTL"))
       => LET n == s.itemCount
              t == s.cacheTTL
          IN /\ Val(syncSettings').itemCount = (IF n > 10 THEN 10 ELSE IF n < 3 THEN 3 ELSE n)
             /\ Val(syncSettings').cacheTTL = (IF t > 1440 THEN 1440 ELSE IF t < 1 THEN 1 ELSE t)]_vars

\* C4 (SpecSettings): whenever settings are persisted, after any sequence of
\* saves, resets and install/update events, the item count is within [3,10]
\* and the TTL within [1,1440], both at once; the TTL mirrored for the cache
\* is within [1,1440] too.
C4_PersistedSettingsInBounds ==
  /\ IsSome(syncSettings)
       => /\ Has(Val(syncSettings), "itemCount") /\ Has(Val(syncSettings), "cacheTTL")
          /\ Val(syncSettings).itemCount \in 3..10
          /\ Val(syncSettings).cacheTTL \in 1..1440
  /\ IsSome(localCacheTTL) => Val(localCacheTTL) \in 1..1440

\* a save whose two numeric fields were both out of range has been persisted
C4_Witness ==
  /\ IsSome(lastResponse)
  /\ Has(Val(lastResponse), "settings")
  /\ Val(lastResponse).settings = FullSettings(0, 2000)
  /\ IsSome(syncSettings)
  /\ Val(syncSettings).itemCount = 5
  /\ Val(syncSettings).cacheTTL = 20

C6_RetroactiveTTL ==
  [][(/\ \E id \in IdentityOutcomes, api \in ApiOutcomes :
           OnMessage_GET_WATCH_LATER("other", FALSE, id, api)
      /\ IsSome(lastResponse)
      /\ Has(Val(lastResponse), "settings")
      /\ Val(lastResponse).settings.cacheTTL \in 1..1440)
     => LET resp == Val(lastResponse')
            T == Val(lastResponse).settings.cacheTTL
        IN (Has(resp, "fromCache") /\ resp.fromCache)
             <=> (/\ IsSome(watchLaterCache)
                  /\ now - Val(watchLaterCache).timestamp <= T * MinuteMs)]_vars

\* C7 (SpecPresenter): in a content script that was loaded off the homepage
\* (its init is done, it has no navigation observer), where only a
\* DATA_REFRESHED notification starts injections, a shelf element is inserted
\* only while the tab shows the homepage.
C7_PaintOnlyOnHomepage ==
  [][(/\ initState = "done"
      /\ ~observer
      /\ IsSome(shelf')
      /\ shelf' # shelf)
     => IsHomepage(url)]_vars

\* C8 (SpecExtract): when the background handles the scraper's
\* WATCH_LATER_UPDATED message, it sends a DATA_REFRESHED message with the
\* same count to the tabs.
C8_WriteIsBroadcast ==
  [][(/\ bgInbox # << >>
      /\ Head(bgInbox).type = "WATCH_LATER_UPDATED"
      /\ bgInbox' = Tail(bgInbox))
     => \E k \in 1..Len(tabInbox') :
          /\ tabInbox'[k].type = "DATA_REFRESHED"
          /\ tabInbox'[k].count = Head(bgInbox).count]_vars

\* C9 (SpecSettings): on SAVE_SETTINGS every field of the persisted settings
\* has the same value in the settings broadcast to the tabs and in the
\* settings returned to the caller.
C9_BroadcastIsPersisted ==
  [][\A s \in SettingsInputs :
       OnMessage_SAVE_SETTINGS(s)
       => LET persisted == Val(syncSettings')
              sent == tabInbox'[Len(tabInbox')].settings
              returned == Val(lastResponse').settings
          IN \A f \in DOMAIN persisted :
               /\ Has(sent, f) /\ sent[f] = persisted[f]
               /\ Has(returned, f) /\ returned[f] = persisted[f]]_vars

\* C10 (SpecPresenter): while the content script's settings are disabled (it
\* has handled a SETTINGS_UPDATED with enabled false and none with enabled
\* true since), no shelf element is inserted.
C10_NoShelfWhileDisabled ==
  [][(/\ IsSome(currentSettings)
      /\ ~Enabled(currentSettings)
      /\ currentSettings' = currentSettings)
     => ~(IsSome(shelf') /\ shelf' # shelf)]_vars

\* C11 (SpecDetect): a change-detection callback (start timer, poll, mutation
\* callback) that finds the tab off the Watch Later page clears the poll,
\* disconnects the observer and cancels the debounce timer; once the poll is
\* cleared the three stay off and no change-detection callback runs again.
C11_TeardownIsFinal ==
  [][/\ (/\ ~OnWatchLater(scraperUrl)
         /\ \/ PollFires
            \/ \E found \in BOOLEAN : StartTimerFires(found)
            \/ \E relevant \in BOOLEAN : MutationCallback(relevant))
        => (~pollInterval' /\ ~playlistObserver' /\ ~observing' /\ ~debounceTimeout')
     /\ ~pollInterval
        => /\ ~pollInterval' /\ ~playlistObserver' /\ ~observing' /\ ~debounceTimeout'
           /\ ~startTimeout'
           /\ ~PollFires
           /\ ~DebounceFires
           /\ ~\E found \in BOOLEAN : StartTimerFires(found)
           /\ ~\E relevant \in BOOLEAN : MutationCallback(relevant)]_vars

\* change detection was running with a debounce pending on the page, the tab
\* left the page, and the teardown has happened: everything is off although
\* the known id set shows that checks ran, and the tab is back on the page
C11_Witness ==
  /\ ~pollInterval
  /\ ~playlistObserver
  /\ ~debounceTimeout
  /\ ~startTimeout
  /\ lastVideoIds # {}
  /\ OnWatchLater(scraperUrl)

\* C12 (SpecDetect): when the known id set is that of the stored entry (the
\* last successful extraction) and a debounced change check extracts a list
\* whose id set differs from it, the check overwrites the entry with the
\* extracted list and the known set becomes the new id set; the empty known
\* set of an empty playlist included.
C12_DifferenceOverwrites ==
  [][(/\ DebounceFires
      /\ IsSome(ExtractWatchLaterData(ytInitialData))
      /\ IsSome(watchLaterData)
      /\ VideoIds(Val(watchLaterData).videos) = lastVideoIds
      /\ VideoIds(Val(ExtractWatchLaterData(ytInitialData))) # lastVideoIds)
     => /\ watchLaterData' = Some([videos |-> Val(ExtractWatchLaterData(ytInitialData)),
                                   timestamp |-> now, source |-> "scraper"])
        /\ lastVideoIds' = VideoIds(Val(ExtractWatchLaterData(ytInitialData)))]_vars

\* C13 (SpecDetect): a debounced change check whose extracted id set equals
\* the known id set writes no entry, sends no notification and leaves the
\* known set as it is.
C13_UnchangedIsNoOp ==
  [][(/\ DebounceFires
      /\ IsSome(ExtractWatchLaterData(ytInitialData))
      /\ VideoIds(Val(ExtractWatchLaterData(ytInitialData))) = lastVideoIds)
     => /\ watchLaterData' = watchLaterData
        /\ bgInbox' = bgInbox
        /\ lastVideoIds' = lastVideoIds]_vars

\* checks have run on a page whose ids are the known, non-empty set: no check
\* is pending, the entry is the one scrape of the two videos, and its
\* notification, the only one sent, has been handled
C13_Witness ==
  /\ lastVideoIds = {1, 2}
  /\ IsSome(ExtractWatchLaterData(ytInitialData))
  /\ VideoIds(Val(ExtractWatchLaterData(ytInitialData))) = lastVideoIds
  /\ ~debounceTimeout
  /\ ~startTimeout
  /\ pollInterval
  /\ IsSome(watchLaterData)
  /\ VideoIds(Val(watchLaterData).videos) = lastVideoIds
  /\ bgInbox = << >>
  /\ IsSome(lastResponse)

\* C14 (SpecScrape): the list a scrape stores holds the id of every source
\* item that has a renderer and an id, each id once; each record is the one
\* built from the first such item with its id, and the records keep the
\* order of those first items.
C14_Deduplicated ==
  [][(/\ \E i \in 1..Len(waits) : CheckData(i, None)
      /\ IsSome(ExtractWatchLaterData(ytInitialData)))
     => LET items == Val(ytInitialData).items
            out == Val(watchLaterData').videos
            wellFormed(k) == items[k].renderer /\ items[k].videoId # 0
            first(id) == CHOOSE k \in 1..Len(items) :
                           /\ wellFormed(k) /\ items[k].videoId = id
                           /\ \A j \in 1..(k - 1) : ~(wellFormed(j) /\ items[j].videoId = id)
        IN /\ \A k \in 1..Len(items) :
                wellFormed(k) => \E i \in 1..Len(out) : out[i].videoId = items[k].videoId
           /\ \A i, j \in 1..Len(out) : (out[i].videoId = out[j].videoId) => (i = j)
           /\ \A i \in 1..Len(out) : out[i] = ExtractVideo(items[first(out[i].videoId)])
           /\ \A i, j \in 1..Len(out) :
                (i < j) => (first(out[i].videoId) < first(out[j].videoId))]_vars

\* C15 (SpecScrape): when a path yields the playlist array, a scrape stores a
\* list, whatever malformed items (no renderer, no id, no title, null) the
\* array holds; the list has a record for every item with renderer, id and
\* title, and no record for any other item.
C15_MalformedOmitted ==
  [][(/\ \E i \in 1..Len(waits) : CheckData(i, None)
      /\ Val(ytInitialData).path \in {"primary", "alt"})
     => LET items == Val(ytInitialData).items
            wellFormed(k) == /\ ~IsNullItem(items[k])
                             /\ items[k].renderer
                             /\ items[k].videoId # 0
                             /\ items[k].title # ""
            kept == {k \in 1..Len(items) : wellFormed(k)}
        IN /\ IsSome(watchLaterData')
           /\ Len(Val(watchLaterData').videos) = Cardinality(kept)
           /\ \A k \in kept :
                \E i \in 1..Len(Val(watchLaterData').videos) :
                  Val(watchLaterData').videos[i] = ExtractVideo(items[k])]_vars

\* C16 (SpecEndToEnd): with a non-empty array of malformed items only, a
\* scrape stores the empty list; while that entry is stored, a request of the
\* homepage content script is answered with success and no videos; and a
\* content script resuming with such an answer shows the empty-state view if
\* showEmptyState is true and inserts nothing if it is false.
C16_AllMalformedShowsEmptyState ==
  [][/\ (\E i \in 1..Len(waits) : CheckData(i, None))
        => watchLaterData' = Some([videos |-> << >>, timestamp |-> now,
                                   source |-> "scraper"])
     /\ (/\ \E id \in {"token", "none"}, api \in ApiOutcomes :
              OnMessage_GET_WATCH_LATER("injector", FALSE, id, api)
         /\ IsSome(watchLaterData)
         /\ Val(watchLaterData).videos = << >>)
        => LET resp == Val(lastResponse')
           IN /\ resp.success
              /\ Has(resp, "videos") => resp.videos = << >>
              /\ Has(resp, "items") => resp.items = << >>
     /\ \A i \in 1..Len(inflight) :
          (/\ InjectShelfResume(i)
           /\ Val(inflight[i].response).success
           /\ ResponseVideos(Val(inflight[i].response)) = << >>)
          => IF Val(currentSettings).showEmptyState
             THEN shelf' = Some([kind |-> "empty", videos |-> << >>])
             ELSE ~(IsSome(shelf') /\ shelf' # shelf)]_vars

\* C17 (SpecPresenter): while neither the scraper nor the background has
\* stored a playlist, a GET_WATCH_LATER request of the homepage content script
\* is answered as a failure that asks for a visit of the Watch Later page
\* (needsRefresh), and a content script resuming with the answer to such a
\* request shows the first-time prompt, not the Error view.
C17_NoDataShowsFirstRun ==
  [][/\ (/\ \E id \in {"token", "none"}, api \in ApiOutcomes :
              OnMessage_GET_WATCH_LATER("injector", FALSE, id, api)
         /\ watchLaterData = None
         /\ watchLaterCache = None)
        => LET resp == Val(lastResponse')
           IN ~resp.success /\ Has(resp, "needsRefresh") /\ resp.needsRefresh
     /\ \A i \in 1..Len(inflight) :
          (/\ InjectShelfResume(i)
           /\ watchLaterData = None
           /\ watchLaterCache = None)
          => shelf' = Some([kind |-> "firstTime", videos |-> << >>])]_vars

\* C18 (SpecCache): a GET_WATCH_LATER that does not force a refresh and finds
\* the stored entry older than the TTL returns no items and leaves the stored
\* entry, its items and its timestamp, as it is.
C18_StaleReadKeepsEntry ==
  [][(/\ \E id \in IdentityOutcomes, api \in ApiOutcomes :
           OnMessage_GET_WATCH_LATER("other", FALSE, id, api)
      /\ IsSome(watchLaterCache)
      /\ now - Val(watchLaterCache).timestamp > GetCacheTTL(localCacheTTL))
     => /\ watchLaterCache' = watchLaterCache
        /\ ~Has(Val(lastResponse'), "items")]_vars

\* C19 (SpecRender): when the content script resumes with the answer holding
\* the stored, non-empty playlist L and its settings have item count n, the
\* shelf it inserts shows the first min(n, |L|) records of L reversed, and the
\* stored playlist stays as it is.
C19_NewestFirstTruncated ==
  [][\A i \in 1..Len(inflight) :
       (/\ InjectShelfResume(i)
        /\ IsSome(watchLaterCache)
        /\ Val(watchLaterCache).items # << >>
        /\ Val(inflight[i].response).success
        /\ Val(inflight[i].response).items = Val(watchLaterCache).items)
       => LET L == Val(watchLaterCache).items
              n == Val(currentSettings).itemCount
              shown == IF n < Len(L) THEN n ELSE Len(L)
          IN /\ shelf' = Some([kind |-> "content",
                               videos |-> [k \in 1..shown |-> L[Len(L) + 1 - k]]])
             /\ watchLaterCache' = watchLaterCache]_vars

\* C20 (SpecFeed): when the wait for the feed container gives up after its
\* last poll, and when the content script resumes with a failed answer while
\* the container is in the document, the Error view is shown; a click on its
\* retry button, with enabled settings and the container present, starts a new
\* request.
C20_FailuresShowErrorView ==
  [][/\ (FeedPoll /\ initState' = "failed")
        => (IsSome(shelf') /\ Val(shelf').kind = "error")
     /\ \A i \in 1..Len(inflight) :
          (/\ InjectShelfResume(i)
           /\ ~Val(inflight[i].response).success
           /\ feedContainer)
          => (IsSome(shelf') /\ Val(shelf').kind = "error")
     /\ (RetryClicked /\ Enabled(currentSettings) /\ feedContainer)
        => Len(inflight') = Len(inflight) + 1]_vars

\* C21 (SpecReentry): once init() is over, whenever the tab has arrived at
\* the homepage by in-page navigation (its URL is the homepage's and differs
\* from the URL last seen by the content script) while the settings are
\* enabled, an injection is eventually scheduled, unless the user leaves the
\* homepage first.
C21_ReentryOnNavigation ==
  (/\ initState \in {"done", "failed"}
   /\ IsHomepage(url)
   /\ lastUrl # url
   /\ Enabled(currentSettings))
    ~> (injectionTimeout \/ ~IsHomepage(url))

\* C22 (SpecHeal): whenever, on the homepage and with enabled settings, the
\* shelf the content script rendered (shelfInjected) is no longer in the
\* document, the shelf is eventually in the document again, unless the user
\* leaves the homepage or the settings stop being enabled.
C22_ShelfSelfHeals ==
  (/\ IsHomepage(url)
   /\ Enabled(currentSettings)
   /\ shelfInjected
   /\ ~IsSome(shelf))
    ~> (IsSome(shelf) \/ ~IsHomepage(url) \/ ~Enabled(currentSettings))

\* C23 (SpecIdle): a content script that resumes with the successful answer
\* holding the stored, empty playlist while showEmptyState is false inserts no
\* shelf element; and in the state this leaves (init over, on the homepage,
\* enabled settings, showEmptyState false, no shelf), a DATA_REFRESHED
\* notification and a SETTINGS_UPDATED notification with enabled settings each
\* schedule a new injection, which then renders what its answer calls for
\* (with showEmptyState switched on, the empty-state view).
C23_IdleStaysSubscribed ==
  [][LET idle == /\ initState = "done"
                 /\ IsHomepage(url)
                 /\ Enabled(currentSettings)
                 /\ Val(currentSettings).showEmptyState = FALSE
                 /\ ~IsSome(shelf)
     IN
     /\ \A i \in 1..Len(inflight) :
          (/\ InjectShelfResume(i)
           /\ IsSome(watchLaterCache)
           /\ Val(watchLaterCache).items = << >>
           /\ Val(inflight[i].response).success
           /\ Val(inflight[i].response).items = << >>
           /\ IsSome(currentSettings)
           /\ Val(currentSettings).showEmptyState = FALSE)
          => shelf' = shelf
     /\ (idle /\ \E c \in {0, 1} : OnMessage_DATA_REFRESHED(c)) => injectionTimeout'
     /\ (idle /\ OnMessage_SETTINGS_UPDATED /\ Head(tabInbox).settings.enabled)
          => injectionTimeout'
     /\ \A i \in 1..Len(inflight) :
          (/\ InjectShelfResume(i)
           /\ feedContainer
           /\ Val(inflight[i].response).success
           /\ ResponseVideos(Val(inflight[i].response)) = << >>
           /\ IsSome(currentSettings)
           /\ Val(currentSettings).showEmptyState = TRUE)
          => shelf' = Some([kind |-> "empty", videos |-> << >>])]_vars

\* an injection has ended without a shelf under showEmptyState = false, and a
\* notification has scheduled the next one
C23_Witness ==
  /\ initState = "done"
  /\ IsHomepage(url)
  /\ IsSome(watchLaterCache)
  /\ Val(watchLaterCache).items = << >>
  /\ Enabled(currentSettings)
  /\ Val(currentSettings).showEmptyState = FALSE
  /\ ~IsSome(shelf)
  /\ inflight = << >>
  /\ tabInbox = << >>
  /\ injectionTimeout

\* C24 (SpecSettings): a SAVE_SETTINGS with an object that omits some of the
\* declared settings fields leaves each omitted field of the stored settings
\* at the value it had before the save.
C24_PartialSaveKeepsOmitted ==
  [][\A settings \in SettingsInputs :
       (OnMessage_SAVE_SETTINGS(settings) /\ IsSome(syncSettings))
       => \A f \in (DOMAIN DEFAULT_SETTINGS) \ (DOMAIN settings) :
            Val(syncSettings')[f] = Val(syncSettings)[f]]_vars

\* C25 (SpecGetSettings): the settings object a GET_SETTINGS answers with has
\* every declared field, and each declared field equals the stored object's
\* value when the stored object has the field and the default otherwise.
C25_GetSettingsFieldwise ==
  [][OnMessage_GET_SETTINGS
     => LET result == Val(lastResponse').settings
            stored == IF IsSome(syncSettings) THEN Val(syncSettings) ELSE << >>
        IN /\ Val(lastResponse').success
           /\ \A f \in DOMAIN DEFAULT_SETTINGS :
                /\ Has(result, f)
                /\ result[f] = IF Has(stored, f) THEN stored[f]
                               ELSE DEFAULT_SETTINGS[f]]_vars

\* a GET_SETTINGS was answered while the stored object has some declared
\* fields and lacks others
C25_Witness ==
  /\ IsSome(lastResponse)
  /\ Has(Val(lastResponse), "settings")
  /\ IsSome(syncSettings)
  /\ Has(Val(syncSettings), "itemCount")
  /\ ~Has(Val(syncSettings), "cacheTTL")
  /\ Val(lastResponse).settings.itemCount = Val(syncSettings).itemCount
  /\ Val(lastResponse).settings.cacheTTL = DEFAULT_SETTINGS.cacheTTL

\* C26 (SpecClear): a CLEAR_CACHE leaves no playlist entry in the storage,
\* neither the background's nor the one the scraper wrote; and a
\* GET_WATCH_LATER that is the first message handled after a CLEAR_CACHE,
\* with no scraper entry written meanwhile, returns no playlist and stores
\* none.
C26_ClearRemovesEntry ==
  [][/\ OnMessage_CLEAR_CACHE
        => (watchLaterCache' = None /\ watchLaterData' = None)
     /\ (/\ \E id \in IdentityOutcomes, api \in ApiOutcomes :
              OnMessage_GET_WATCH_LATER("other", FALSE, id, api)
         /\ lastResponse = Some([success |-> TRUE])
         /\ watchLaterData = None)
        => /\ ~Has(Val(lastResponse'), "items")
           /\ ~Has(Val(lastResponse'), "videos")
           /\ watchLaterCache' = None]_vars

\* C27 (SpecWrites): no write of the scraper's entry replaces a stored entry
\* by one with an earlier timestamp, also when the writes of overlapping
\* extraction runs complete in another order than they were issued.
C27_TimestampMonotonic ==
  [][(IsSome(watchLaterData) /\ IsSome(watchLaterData'))
     => Val(watchLaterData').timestamp >= Val(watchLaterData).timestamp]_vars

\* C28 (SpecKeys): in every reachable state of a rendered carousel of N
\* cards, the focus index is -1 or within 0..N-1; Home leads to index 0 and
\* End to N - 1; and with a card focused (index i >= 0), ArrowRight leads to
\* (i + 1) mod N, ArrowLeft to (i - 1) mod N, and every key to an index
\* within 0..N-1.
C28_KeyboardWraparound ==
  Cards > 0
  => LET N == Cards
         i == currentFocusIndex
     IN /\ i \in -1..(N - 1)
        /\ KeyResult("Home") = 0
        /\ KeyResult("End") = N - 1
        /\ i >= 0
           => /\ KeyResult("ArrowRight") = (i + 1) % N
              /\ KeyResult("ArrowLeft") = (i - 1 + N) % N
              /\ \A key \in Keys : KeyResult(key) \in 0..(N - 1)

\* key presses have moved the focus to the last of at least three cards,
\* from where ArrowRight wraps to the first
C28_Witness ==
  /\ Cards >= 3
  /\ currentFocusIndex = Cards - 1
  /\ KeyResult("ArrowRight") = 0

\* C29 (SpecThumbs): a scrape of a video whose thumbnail list holds k URLs
\* stores the video's record; for k >= 1 its low thumbnail is the first URL,
\* its mid thumbnail the second URL if k >= 2 and the first if k = 1, its
\* high thumbnail the last URL; for k = 0 all three are empty.
C29_ThumbnailSelection ==
  [][(\E i \in 1..Len(waits) : CheckData(i, None))
     => LET tl == Val(ytInitialData).items[1].thumbnails
            k == Len(tl)
        IN (\A j \in 1..k : tl[j] # "")
           => /\ IsSome(watchLaterData')
              /\ Len(Val(watchLaterData').videos) = 1
              /\ LET t == Val(watchLaterData').videos[1].thumbnails
                 IN IF k = 0
                    THEN t = [default |-> "", medium |-> "", high |-> ""]
                    ELSE /\ t.default = tl[1]
                         /\ t.medium = IF k >= 2 THEN tl[2] ELSE tl[1]
                         /\ t.high = tl[k]]_vars

\* a record stored from a list of three different URLs
C29_Witness ==
  /\ IsSome(watchLaterData)
  /\ Val(ytInitialData).items[1].thumbnails = <<"a", "b", "c">>
  /\ Val(watchLaterData).videos[1].thumbnails
       = [default |-> "a", medium |-> "b", high |-> "c"]

\* C30 (SpecExtract): a REFRESH_WATCH_LATER starts a new waitForYtData run
\* whose first check is due at once, and leaves the debounce timer and the
\* known id set of the change detection as they are, whether the timer is
\* pending or not; and a check of such a run that finds the page's data
\* extracts and stores it in that step, again leaving the timer as it is.
C30_ManualRefreshIgnoresDebounce ==
  [][/\ OnMessage_REFRESH_WATCH_LATER
        => /\ Len(waits') = Len(waits) + 1
           /\ waits'[Len(waits')] = 0
           /\ debounceTimeout' = debounceTimeout
           /\ lastVideoIds' = lastVideoIds
     /\ \A i \in 1..Len(waits) :
          (/\ CheckData(i, None)
           /\ IsSome(ytInitialData)
           /\ Val(ytInitialData).contents
           /\ IsSome(ExtractWatchLaterData(ytInitialData)))
          => /\ watchLaterData' = Some([videos |-> Val(ExtractWatchLaterData(ytInitialData)),
                                        timestamp |-> now, source |-> "scraper"])
             /\ debounceTimeout' = debounceTimeout]_vars

\* the first scrape is done (only a waitForYtData run's scrape stores videos
\* while the known id set is empty), a run started by a manual refresh is
\* about to do its first check, and the debounce timer is pending
C30_Witness ==
  /\ IsSome(watchLaterData)
  /\ Val(watchLaterData).videos # << >>
  /\ lastVideoIds = {}
  /\ waits = <<0>>
  /\ debounceTimeout

\* C31 (SpecWait): a waitForYtData run polls at most maxAttempts times (a
\* poll happens only with fewer than maxAttempts polls done, and leaves no
\* running counter at maxAttempts); a poll that invokes the callback (the
\* only step of a run that writes the entry or sends the notification) ends
\* the run, so that a run invokes it at most once; and a poll in which
\* neither the window's object nor the script-tag fallback has the populated
\* marker writes no entry and sends no notification.
C31_WaitIsBounded ==
  [][\A i \in 1..Len(waits), fromDOM \in DomDatas :
       CheckData(i, fromDOM)
       => /\ waits[i] < WAIT_MAX_ATTEMPTS
          /\ \A j \in 1..Len(waits') : waits'[j] < WAIT_MAX_ATTEMPTS
          /\ (watchLaterData' # watchLaterData \/ bgInbox' # bgInbox)
               => Len(waits') = Len(waits) - 1
          /\ (~Populated(ytInitialData) /\ ~Populated(fromDOM))
               => (watchLaterData' = watchLaterData /\ bgInbox' = bgInbox)]_vars

\* a run has given up after its last poll: none is running, the window still
\* has no populated data, and nothing was ever written or notified (every
\* populated page of this specification extracts to a list, so a callback
\* would have written)
C31_Witness ==
  /\ waits = << >>
  /\ ~Populated(ytInitialData)
  /\ watchLaterData = None
  /\ lastResponse = None
  /\ bgInbox = << >>

\* C32 (SpecStorage): when a storage access of the background throws, the
\* error does not reach the message listener's outer catch, and: a failed read
\* of the cache entry is answered like a missing entry (not from the cache); a
\* failed read of the TTL leaves the default TTL in force; a failed read of
\* the settings is answered with the defaults; a failed write of the cache
\* entry changes nothing and the request is still answered with the fetched
\* items; a failed removal reports failure and changes nothing; a failed
\* write of the settings (either of its two writes) reports failure, and
\* changes nothing when it is the first write that failed.  When the
\* scraper's write fails, no entry is written, no notification is sent and
\* the scraper goes on as before.
C32_StorageFailuresContained ==
  [][/\ \A message \in StorageMessages : \A io \in IOs(message) :
          (/\ io # {}
           /\ io # {"tabsQuery"}
           /\ OnMessage(message, io, "token", [kind |-> "ok", items |-> <<Video(3)>>]))
          => LET resp == Val(lastResponse')
                 type == message.type
             IN /\ ~OnMessageSwitch(message, io, "token",
                                    [kind |-> "ok", items |-> <<Video(3)>>]).threw
                /\ (type = "GET_WATCH_LATER" /\ "getCache" \in io)
                     => (resp.success /\ ~resp.fromCache)
                /\ (type = "GET_WATCH_LATER" /\ ~message.forceRefresh /\ "getTTL" \in io)
                     => (resp.fromCache
                           <=> /\ IsSome(watchLaterCache)
                               /\ now - Val(watchLaterCache).timestamp <= DEFAULT_CACHE_TTL)
                /\ (type = "GET_WATCH_LATER" /\ "setCache" \in io)
                     => /\ resp.success
                        /\ watchLaterCache' = watchLaterCache
                        /\ ~resp.fromCache => resp.items = <<Video(3)>>
                /\ (type = "GET_SETTINGS" /\ "getSettings" \in io)
                     => resp = [success |-> TRUE, settings |-> DEFAULT_SETTINGS]
                /\ (type = "CLEAR_CACHE" /\ "removeCache" \in io)
                     => (~resp.success /\ watchLaterCache' = watchLaterCache)
                /\ (type = "SAVE_SETTINGS" /\ "setSettings" \in io)
                     => /\ ~resp.success
                        /\ syncSettings' = syncSettings
                        /\ localCacheTTL' = localCacheTTL
                        /\ tabInbox' = tabInbox
                /\ (type = "SAVE_SETTINGS" /\ "setTTL" \in io)
                     => (~resp.success /\ localCacheTTL' = localCacheTTL
                         /\ tabInbox' = tabInbox)
     /\ \A d \in pendingSets :
          SaveToStorageRejects(d)
          => /\ watchLaterData' = watchLaterData
             /\ bgInbox' = bgInbox
             /\ waits' = waits]_vars

\* a GET_SETTINGS whose read failed was answered with the defaults while
\* the stored settings differ from them, and a write of the scraper has
\* failed: its run is over, nothing is pending, nothing is stored
C32_Witness ==
  /\ lastResponse = Some([success |-> TRUE, settings |-> DEFAULT_SETTINGS])
  /\ IsSome(syncSettings)
  /\ Val(syncSettings) # DEFAULT_SETTINGS
  /\ waits = << >>
  /\ pendingSets = {}
  /\ watchLaterData = None

\* C33 (SpecCache): a GET_WATCH_LATER handled while a cache entry is stored
\* is answered with success, and with the stored items unless a fetch
\* succeeded, also when the fetch it attempts fails (no token, a failed
\* authentication, any other API error); an error is answered only when no
\* entry is stored.
C33_FetchFailureFallsBack ==
  [][\A f \in BOOLEAN, id \in IdentityOutcomes, api \in ApiOutcomes :
       (OnMessage_GET_WATCH_LATER("other", f, id, api) /\ IsSome(watchLaterCache))
       => LET resp == Val(lastResponse')
              fetched == GetAuthToken(cachedToken, tokenExpiryTime, now, id).token
                         /\ api.kind = "ok"
          IN /\ resp.success
             /\ (~fetched \/ resp.fromCache)
                  => resp.items = Val(watchLaterCache).items]_vars

\* C34 (SpecFeed): a waitForFeedContainer run looks the container up at most
\* FEED_CHECK_MAX_ATTEMPTS times (its first lookup in init, the later ones
\* polled); a lookup that finds the container resolves the run at once; a
\* lookup that misses rejects the run exactly when it is the
\* FEED_CHECK_MAX_ATTEMPTS-th and else leaves it waiting; and a run that has
\* resolved or rejected stays so and polls no more.
C34_ContainerWaitIsBounded ==
  [][/\ InitSettingsLoaded
        => \/ initState' = "done"
           \/ (initState' = "waiting" /\ ~feedContainer /\ feedAttempts' = 1)
     /\ FeedPoll
        => /\ initState = "waiting"
           /\ feedAttempts < FEED_CHECK_MAX_ATTEMPTS
           /\ feedAttempts' <= FEED_CHECK_MAX_ATTEMPTS
           /\ IF feedContainer
              THEN initState' = "done"
              ELSE /\ feedAttempts' = feedAttempts + 1
                   /\ initState' = IF feedAttempts' = FEED_CHECK_MAX_ATTEMPTS
                                   THEN "failed" ELSE "waiting"
     /\ initState \in {"done", "failed"}
        => (initState' = initState /\ feedAttempts' = feedAttempts)]_vars

\* a run has rejected after its last lookup, and the container has appeared
\* since
C34_Witness ==
  /\ initState = "failed"
  /\ feedAttempts = FEED_CHECK_MAX_ATTEMPTS
  /\ feedContainer

\* C35 (SpecNotify): the scraper sends its notification only in the step in
\* which the write of that extraction's entry has completed (the entry is
\* then the stored one), and sends none when the write failed; and while a
\* notification is still unread, no write replaces the stored entry by an
\* older one, so that whoever reads the entry on a notification finds an
\* entry at least as new as the one that triggered it.
C35_WriteThenNotify ==
  [][/\ Len(bgInbox') > Len(bgInbox)
        => /\ \E d \in pendingSets :
                /\ SaveToStorageResume(d)
                /\ watchLaterData' = Some(d)
                /\ bgInbox'[Len(bgInbox')].count = Len(d.videos)
           /\ Len(bgInbox') = Len(bgInbox) + 1
     /\ \A d \in pendingSets : SaveToStorageRejects(d) => bgInbox' = bgInbox
     /\ (bgInbox # << >> /\ IsSome(watchLaterData) /\ watchLaterData' # watchLaterData)
        => /\ IsSome(watchLaterData')
           /\ Val(watchLaterData').timestamp >= Val(watchLaterData).timestamp]_vars

\* C36 (SpecPresenter): in every reachable state the document holds at most
\* one element with the shelf id, whatever the interleaving of injectShelf
\* runs (from init, the injection timer, the retry button) with the
\* notifications, navigation and the host page's removal of the shelf.
C36_AtMostOneShelf == Len(shelf) <= 1

\* two injectShelf runs overlapped and both have resumed: the request of the
\* run that inserted the error view was answered before the other run's,
\* whose answer (a success) was the last one given, and one shelf is shown
C36_Witness ==
  /\ Len(shelf) = 1
  /\ shelf[1].kind = "error"
  /\ inflight = << >>
  /\ IsSome(lastResponse)
  /\ Val(lastResponse).success
  /\ Has(Val(lastResponse), "items")

\* C37 (SpecPresenter): when the navigation observer's callback sees that the
\* tab has left the homepage, it leaves no shelf element in the document; and
\* while the tab is on the page the observer last saw, and that page is not the
\* homepage, no step inserts a shelf element (a shelf changes only by being
\* removed).
C37_NoShelfOffHomepage ==
  [][/\ (/\ observer
          /\ isYouTubeHomepage
          /\ lastUrl # url
          /\ ~IsHomepage(url)
          /\ lastUrl' = url)
         => shelf' = << >>
     /\ (/\ observer
          /\ lastUrl = url
          /\ ~IsHomepage(url)
          /\ url' = url
          /\ shelf' # shelf)
         => shelf' = << >>]_vars

\* C38 (SpecDetect): a step of the change-detection path (the poll, the
\* mutation callback, the debounced check) taken while the tab's URL is not
\* the Watch Later page writes no entry and sends no notification.
C38_NoWriteOffWatchLater ==
  [][(/\ ~OnWatchLater(scraperUrl)
      /\ \/ DebounceFires
         \/ PollFires
         \/ \E relevant \in BOOLEAN : MutationCallback(relevant))
     => /\ watchLaterData' = watchLaterData
        /\ bgInbox' = bgInbox]_vars

\* C39 (SpecMessages): in every reachable state, the handling of a message of
\* any type, whatever the identity API and the playlist API do and whichever
\* access throws, calls sendResponse exactly once; for a type the switch does
\* not know, and when an error was thrown to a catch of the listener (from the
\* fetch of the playlist, or to the outer catch), the response has
\* success = false and a non-empty error text.
C39_ExactlyOneResponse ==
  \A message \in AnyMessages :
    \A io \in IOs(message), identity \in IdentitiesOf(message.type),
       api \in ApisOf(message.type) :
      LET e == OnMessageEffect(message, io, identity, api)
          resp == e.responses[1]
          fetch == GetWatchLaterWithCacheCall(
                     io, message.type = "REFRESH_CACHE"
                           \/ (Has(message, "forceRefresh") /\ message.forceRefresh),
                     identity, api)
      IN /\ Len(e.responses) = 1
         /\ (\/ message.type \notin MessageTypes
             \/ e.threw
             \/ /\ message.type \in {"GET_WATCH_LATER", "REFRESH_CACHE"}
                /\ fetch.call.threw)
            => /\ ~resp.success
               /\ Has(resp, "error")
               /\ resp.error # ""

\* a SAVE_SETTINGS whose chrome.tabs.query threw after the settings were
\* written was answered by the outer catch
C39_Witness ==
  /\ lastResponse = Some([success |-> FALSE, error |-> "Tabs error"])
  /\ syncSettings = Some(FullSettings(7, 30))

\* C40 (SpecMessages): once the TTL key of the local storage equals the
\* cacheTTL of the stored settings it stays equal to it; a SAVE_SETTINGS or
\* RESET_SETTINGS whose saveSettings or resetSettings reports success leaves
\* the two equal, and one that reports failure (a storage write threw) has
\* changed neither the stored settings nor the TTL key.
C40_TTLMirrorConsistent ==
  [][/\ (/\ IsSome(syncSettings)
          /\ localCacheTTL = Some(Val(syncSettings).cacheTTL))
         => /\ IsSome(syncSettings')
            /\ localCacheTTL' = Some(Val(syncSettings').cacheTTL)
     /\ \A message \in {[type |-> "SAVE_SETTINGS", settings |-> FullSettings(7, 30)],
                         [type |-> "RESET_SETTINGS"]} :
          \A io \in IOs(message) \ {{"tabsQuery"}} :
            OnMessage(message, io, "none", [kind |-> "error"])
            => IF Val(lastResponse').success
               THEN /\ IsSome(syncSettings')
                    /\ localCacheTTL' = Some(Val(syncSettings').cacheTTL)
               ELSE /\ syncSettings' = syncSettings
                    /\ localCacheTTL' = localCacheTTL]_vars
====
